---- MODULE Spec2Model ----
(***************************************************************************)
(* A model of travertino's node tree (node.py) and of its style            *)
(* declarations (declaration.py).                                          *)
(*                                                                         *)
(* The module holds independent specifications over one set of variables:  *)
(*   TreeSpec   - Node.add / insert / remove / clear, any arguments        *)
(*   ForestSpec - the same on detached subtrees only, and Node.refresh     *)
(*   PropSpec   - writes and deletes of validated properties               *)
(*   BindSpec   - Node.__init__, Node.style and Node.applicator            *)
(* Each specification leaves the variables of the others unchanged.        *)
(***************************************************************************)
EXTENDS Integers, Sequences, FiniteSets, TLC

(***************************************************************************)
(* Bounds of the model.                                                    *)
(***************************************************************************)
\* Number of Node objects the host has constructed.
NumNodes == 3
\* add / insert are issued while the tree holds fewer child entries than this.
MaxEdges == 2
\* Bound on the children one node holds in OrderSpec.
MaxChildren == 3

\* Python's None, as a reference that is no node and no applicator.
None == 0
\* self._children = None: the value of _children that is no list of nodes.
NoChildren == <<None>>

Nodes == 1..NumNodes
\* Viewports handed to refresh (test_refresh: widths 10 and 15).
Viewports == {10, 15}
\* Indexes handed to insert: negative, first, and in or past the end.
Indexes == -1..1

\* The interpreter raises RecursionError when the call stack passes its limit.
\* Every finite walk over NumNodes nodes is shallower than this, so reaching it
\* means the walk follows a cycle and would never end.
RecursionLimit == 2 * NumNodes + 2

VARIABLES
    _children,   \* node -> NoChildren (a leaf) or the sequence of its children
    _parent,     \* node -> None or a node
    _root,       \* node -> None (the node is its own root) or a node
    applicator,  \* node -> None or the applicator object of the node
    last         \* the last call: its name, arguments, outcome and effects

treeVars == <<_children, _parent, _root, applicator, last>>

VARIABLES
    heap,        \* object -> the style declaration stored there, or free
    slots,       \* the node of BindSpec: its _style and _applicator
    slast        \* the last call on a declaration or on the node's slots

styleVars == <<heap, slots, slast>>
vars == <<treeVars, styleVars>>

\* The applicator object the host made for node n (test_refresh: Applicator(self)).
ApplicatorOf(n) == n

\* The record of a call: removed holds the children the call took out of
\* self, layouts the calls of style.layout(node, viewport) and bounds the
\* applicators whose set_bounds() was called, in order.
NoCall == [op |-> "init", self |-> None, child |-> None, index |-> None,
           viewport |-> None, err |-> "none", removed |-> <<>>,
           layouts |-> <<>>, bounds |-> <<>>]

Call(op, self, child, index, err) ==
    [NoCall EXCEPT !.op = op, !.self = self, !.child = child,
                   !.index = index, !.err = err]

(***************************************************************************)
(* Python values.  A value is a tagged tuple; a string is the sequence of  *)
(* its segments, each a whitespace character " " or a word free of         *)
(* whitespace, so that str.strip() has something to strip.                 *)
(***************************************************************************)
PyStr(segs) == <<"str", segs>>
PyInt(i) == <<"int", i>>
\* A float, held in tenths: PyFloat(105) is 10.5.
PyFloat(tenths) == <<"float", tenths>>
NoneValue == <<"None">>
\* The descriptor object itself, which a dataclass __init__ passes when no
\* value is supplied.
Descriptor(name) == <<"descriptor", name>>
\* No attribute of that name on the object (not a Python value).
Unset == <<"unset">>
\* A list, a tuple and an ImmutableList of the given items.
PyList(items) == <<"list", items>>
PyTuple(items) == <<"tuple", items>>
ImmutableList(items) == <<"ImmutableList", items>>

IsStr(v) == v[1] = "str"
IsInt(v) == v[1] = "int"
IsFloat(v) == v[1] = "float"
IsNumber(v) == IsInt(v) \/ IsFloat(v)
IsTuple(v) == v[1] = "tuple"
\* isinstance(value, Sequence), for a value that is not a str
IsSequence(v) == v[1] \in {"list", "tuple"}

Tenths(v) == IF IsInt(v) THEN 10 * v[2] ELSE v[2]

\* a == b of Python: numbers compare by value across int and float.
PyEq(a, b) ==
    IF IsNumber(a) /\ IsNumber(b) THEN Tenths(a) = Tenths(b)
    ELSE IF a[1] = "ImmutableList" /\ b[1] \in {"ImmutableList", "list"}
         THEN \* ImmutableList.__eq__: self._data == other
              a[2] = b[2]
    ELSE a[1] = b[1] /\ a = b

RECURSIVE lstrip(_)
lstrip(segs) ==
    IF segs # <<>> /\ Head(segs) = " " THEN lstrip(Tail(segs)) ELSE segs

RECURSIVE rstrip(_)
rstrip(segs) ==
    IF segs # <<>> /\ segs[Len(segs)] = " "
    THEN rstrip(SubSeq(segs, 1, Len(segs) - 1)) ELSE segs

\* str.strip()
strip(segs) == rstrip(lstrip(segs))

\* The words that int() and float() read as numbers, in tenths.
NumberWords == ("0" :> 0) @@ ("1" :> 10) @@ ("2" :> 20) @@ ("5" :> 50) @@ ("6" :> 60) @@ ("10" :> 100)
                 @@ ("10.5" :> 105) @@ ("6.5" :> 65)

Ok(v) == [ok |-> TRUE, value |-> v, err |-> "none"]
\* raise ValueError
Fail == [ok |-> FALSE, value |-> NoneValue, err |-> "ValueError"]
\* raise TypeError
TypeFail == [ok |-> FALSE, value |-> NoneValue, err |-> "TypeError"]

\* int(value): ValueError / TypeError are the failure.
int(v) ==
    IF IsInt(v) THEN Ok(v)
    ELSE IF IsFloat(v)
         THEN Ok(PyInt(IF v[2] >= 0 THEN v[2] \div 10 ELSE -((-v[2]) \div 10)))
    ELSE IF IsStr(v)
         THEN LET w == strip(v[2])
              IN IF Len(w) = 1 /\ w[1] \in DOMAIN NumberWords
                    /\ NumberWords[w[1]] % 10 = 0
                 THEN Ok(PyInt(NumberWords[w[1]] \div 10)) ELSE Fail
    ELSE Fail

\* float(value)
float(v) ==
    IF IsNumber(v) THEN Ok(PyFloat(Tenths(v)))
    ELSE IF IsStr(v)
         THEN LET w == strip(v[2])
              IN IF Len(w) = 1 /\ w[1] \in DOMAIN NumberWords
                 THEN Ok(PyFloat(NumberWords[w[1]])) ELSE Fail
    ELSE Fail

\* travertino.colors.color(value): a colour object passes, a string that
\* names a colour or is a hex literal parses, anything else is a ValueError.
ColorWords == {"rebeccapurple", "goldenrod", "#112233"}
color(v) ==
    IF v[1] = "color" THEN Ok(v)
    ELSE IF IsStr(v) /\ Len(strip(v[2])) = 1 /\ strip(v[2])[1] \in ColorWords
         THEN Ok(<<"color", strip(v[2])[1]>>)
    ELSE Fail

(***************************************************************************)
(* Choices                                                                 *)
(***************************************************************************)
Choices(constants, string, integer, number, col) ==
    [constants |-> constants, string |-> string, integer |-> integer,
     number |-> number, color |-> col]

\* Choices.validate with the constant comparison returning the value that was
\* passed instead of the constant it equals.
ValidateReturnsValue(c, value) ==
    IF c.string /\ IsStr(value) THEN Ok(PyStr(strip(value[2])))
    ELSE IF c.integer /\ int(value).ok THEN int(value)
    ELSE IF c.number /\ float(value).ok THEN float(value)
    ELSE IF c.color /\ color(value).ok THEN color(value)
    ELSE IF \E const \in c.constants : PyEq(value, const) THEN Ok(value)
    ELSE Fail

\* Choices.validate with the number step tried before the integer step.
ValidateNumberBeforeInteger(c, value) ==
    IF c.string /\ IsStr(value) THEN Ok(PyStr(strip(value[2])))
    ELSE IF c.number /\ float(value).ok THEN float(value)
    ELSE IF c.integer /\ int(value).ok THEN int(value)
    ELSE IF c.color /\ color(value).ok THEN color(value)
    ELSE IF \E const \in c.constants : PyEq(value, const)
         THEN Ok(CHOOSE const \in c.constants : PyEq(value, const))
    ELSE Fail

\* Choices.validate: the first step that accepts the value returns.
Choices_validate(c, value) ==
    IF c.string /\ IsStr(value) THEN Ok(PyStr(strip(value[2])))
    ELSE IF c.integer /\ int(value).ok THEN int(value)
    ELSE IF c.number /\ float(value).ok THEN float(value)
    ELSE IF c.color /\ color(value).ok THEN color(value)
    ELSE IF \E const \in c.constants : PyEq(value, const)
         THEN Ok(CHOOSE const \in c.constants : PyEq(value, const))
    ELSE Fail

(***************************************************************************)
(* The style classes of the tests and their validated properties.          *)
(***************************************************************************)
NONE == PyStr(<<"none">>)
REBECCAPURPLE == PyStr(<<"rebeccapurple">>)

\* tests/test_choices.py: class Style; tests/test_node.py: class Style.
ChoiceStyle == "ChoiceStyle"
NodeStyle == "NodeStyle"
\* BrokenStyle of test_node: no property, and a reapply() that raises
\* AttributeError.
BrokenStyle == "BrokenStyle"
\* A style class with a directional property over four physical properties
\* and a list property:
\*     thing_top, thing_right, thing_bottom, thing_left =
\*         validated_property(Choices(integer=True), initial=0)
\*     thing = directional_property("thing{}")
\*     list_prop = list_property(Choices(integer=True), initial=[0])
DeclStyle == "DeclStyle"
Free == "free"

\* directional_property.DIRECTIONS
DIRECTIONS == <<"top", "right", "bottom", "left">>

\* directional_property.ASSIGNMENT_SCHEMES
ASSIGNMENT_SCHEMES ==
    (1 :> <<1, 1, 1, 1>>) @@ (2 :> <<1, 2, 1, 2>>) @@ (3 :> <<1, 2, 3, 2>>)
        @@ (4 :> <<1, 2, 3, 4>>)

\* directional_property.format: name_format.format(f"_{direction}")
format(name, direction) ==
    IF name = "thing" /\ direction = "top" THEN "thing_top"
    ELSE IF name = "thing" /\ direction = "right" THEN "thing_right"
    ELSE IF name = "thing" /\ direction = "bottom" THEN "thing_bottom"
    ELSE "thing_left"

PropNames == {"none", "allow_string", "allow_integer", "int_prop",
              "thing_top", "thing_right", "thing_bottom", "thing_left",
              "list_prop"}

\* The names that are a list_property.
ListProperties == {"list_prop"}

\* cls._PROPERTIES, in the order the model iterates over that set (Python
\* leaves the order of a set open; no formula below reads the order).
_PROPERTIES(cls) ==
    IF cls = ChoiceStyle THEN <<"allow_integer", "allow_string", "none">>
    ELSE IF cls = NodeStyle THEN <<"int_prop">>
    ELSE IF cls = DeclStyle
         THEN <<"list_prop", "thing_bottom", "thing_left", "thing_right",
                "thing_top">>
    ELSE <<>>

PropertySet(cls) == {_PROPERTIES(cls)[i] : i \in 1..Len(_PROPERTIES(cls))}

\* The directional properties of the class (directional_property.__set_name__
\* adds them to _ALL_PROPERTIES only).
DirectionalNames(cls) == IF cls = DeclStyle THEN {"thing"} ELSE {}

\* cls._ALL_PROPERTIES
_ALL_PROPERTIES(cls) == PropertySet(cls) \cup DirectionalNames(cls)

\* validated_property.choices
choices(name) ==
    IF name = "none" THEN Choices({NONE, REBECCAPURPLE}, FALSE, FALSE, FALSE, FALSE)
    ELSE IF name = "allow_string" THEN Choices({}, TRUE, FALSE, FALSE, FALSE)
    ELSE Choices({}, FALSE, TRUE, FALSE, FALSE)

RECURSIVE ValidateItems(_, _, _)
\* list_property.validate: the loop over the items; the first item that the
\* choices reject ends it with a ValueError.
ValidateItems(c, items, i) ==
    IF i > Len(items) THEN Ok(<<>>)
    ELSE IF ~Choices_validate(c, items[i]).ok THEN Fail
    ELSE IF ~ValidateItems(c, items, i + 1).ok THEN Fail
    ELSE Ok(<<Choices_validate(c, items[i]).value>>
            \o ValidateItems(c, items, i + 1).value)

\* A list_property.validate that wraps the items as they were given, without
\* putting them through the choices.
ListValidateKeepsItems(name, value) ==
    IF ~IsStr(value) /\ ~IsSequence(value) THEN TypeFail
    ELSE LET items == IF IsStr(value) THEN <<value>> ELSE value[2]
         IN IF items = <<>> THEN Fail ELSE Ok(ImmutableList(items))

\* list_property.validate
list_property_validate(name, value) ==
    IF ~IsStr(value) /\ ~IsSequence(value) THEN TypeFail
    ELSE LET items == IF IsStr(value) THEN <<value>> ELSE value[2]
         IN IF items = <<>> THEN Fail
            ELSE IF ~ValidateItems(choices(name), items, 1).ok THEN Fail
            ELSE Ok(ImmutableList(ValidateItems(choices(name), items, 1).value))

\* self.validate(value): validated_property.validate, or list_property.validate
\* where the property is a list_property.
validate(name, value) ==
    IF name \in ListProperties THEN list_property_validate(name, value)
    ELSE Choices_validate(choices(name), value)

\* The initial= argument of the property (NoneValue: none given).
InitialArgument(name) ==
    IF name = "none" THEN NONE
    ELSE IF name = "allow_string" THEN PyStr(<<"start">>)
    ELSE IF name = "allow_integer" THEN PyInt(0)
    ELSE IF name = "list_prop" THEN PyList(<<PyInt(0)>>)
    ELSE IF name = "int_prop" THEN NoneValue
    ELSE PyInt(0)

\* validated_property.__init__: self.initial
initial(name) ==
    IF InitialArgument(name) = NoneValue THEN NoneValue
    ELSE validate(name, InitialArgument(name)).value

\* list_property.validate of a property whose choices are c.
ListValidate(c, value) ==
    IF ~IsStr(value) /\ ~IsSequence(value) THEN TypeFail
    ELSE LET elems == IF IsStr(value) THEN <<value>> ELSE value[2]
         IN IF elems = <<>> THEN Fail
            ELSE IF ~ValidateItems(c, elems, 1).ok THEN Fail
            ELSE Ok(ImmutableList(ValidateItems(c, elems, 1).value))

\* A property definition that keeps the initial value as it was given once
\* it has passed validation.
InitKeepsArgument(kind, c, arg) ==
    IF arg = NoneValue THEN Ok(NoneValue)
    ELSE IF kind = "list"
         THEN IF ListValidate(c, arg).ok THEN Ok(arg) ELSE ListValidate(c, arg)
    ELSE IF Choices_validate(c, arg).ok THEN Ok(arg) ELSE Fail

\* validated_property.__init__(choices, initial) of a validated_property
\* (kind "scalar") or a list_property (kind "list"): Ok(self.initial), or
\* the error that ends the definition.
validated_property__init__(kind, c, arg) ==
    IF arg = NoneValue THEN Ok(NoneValue)
    ELSE IF kind = "list" THEN ListValidate(c, arg)
    ELSE Choices_validate(c, arg)

\* validated_property.__get__, given value = getattr(obj, f"_{name}", None)
\* and self.initial.
__get__(value, init) == IF value = NoneValue THEN init ELSE value

(***************************************************************************)
(* Style declarations on the heap                                          *)
(***************************************************************************)
\* The host's declaration lives at object 1; copies take the free places.
Objects == 1..3
Applicators == {1, 2}

FreeObject == [cls |-> Free, attrs |-> [n \in PropNames |-> Unset],
               _assigned_applicator |-> None]

\* cls(): a declaration with nothing set and no applicator assigned.
NewObject(cls) == [FreeObject EXCEPT !.cls = cls]

Alive(h) == {o \in Objects : h[o].cls # Free}

\* getattr(obj, f"_{name}", None)
getattr(h, obj, name) ==
    IF h[obj].attrs[name] = Unset THEN NoneValue ELSE h[obj].attrs[name]

\* validated_property.__get__
validated_property__get__(h, obj, name) ==
    IF getattr(h, obj, name) = NoneValue THEN initial(name)
    ELSE getattr(h, obj, name)

\* validated_property.is_set_on
is_set_on(h, obj, name) == h[obj].attrs[name] # Unset

\* hasattr(obj, attr) for the public name of a property: the descriptor of
\* a property of the class answers the read (with the stored or the initial
\* value, or the tuple of four) and never raises AttributeError.
hasattr(h, obj, attr) == attr \in _ALL_PROPERTIES(h[obj].cls)

\* directional_property.is_set_on
directional_property_is_set_on(h, obj, name) ==
    \E i \in 1..Len(DIRECTIONS) : hasattr(h, obj, format(name, DIRECTIONS[i]))

\* BaseStyle.__contains__
contains(h, obj, name) ==
    /\ name \in _ALL_PROPERTIES(h[obj].cls)
    /\ IF name \in DirectionalNames(h[obj].cls)
       THEN directional_property_is_set_on(h, obj, name)
       ELSE is_set_on(h, obj, name)

\* A call of obj.apply(name, value), as the concrete style receives it.
ApplyCall(obj, name, value) == [obj |-> obj, name |-> name, value |-> value]

\* The outcome of an operation on declarations: the heap it leaves, the
\* apply and reapply calls it made in order, and the error it raised.
Outcome(h, applies, reapplied, err) ==
    [heap |-> h, applies |-> applies, reapplied |-> reapplied, err |-> err]

\* A __set__ that stores and applies whatever validates, changed or not.
SetAlwaysApplies(h, obj, name, value) ==
    IF value[1] = "descriptor" THEN Outcome(h, <<>>, <<>>, "none")
    ELSE IF value = NoneValue \/ ~validate(name, value).ok
         THEN Outcome(h, <<>>, <<>>, "ValueError")
    ELSE LET v == validate(name, value).value
         IN Outcome([h EXCEPT ![obj].attrs[name] = v],
                    <<ApplyCall(obj, name, v)>>, <<>>, "none")

\* A __set__ that stores the value before it validates it.
SetStoresBeforeValidation(h, obj, name, value) ==
    IF value[1] = "descriptor" THEN Outcome(h, <<>>, <<>>, "none")
    ELSE IF value = NoneValue THEN Outcome(h, <<>>, <<>>, "ValueError")
    ELSE IF ~validate(name, value).ok
         THEN Outcome([h EXCEPT ![obj].attrs[name] = value], <<>>, <<>>,
                      validate(name, value).err)
    ELSE LET v == validate(name, value).value
         IN IF ~PyEq(v, getattr(h, obj, name))
            THEN Outcome([h EXCEPT ![obj].attrs[name] = v],
                         <<ApplyCall(obj, name, v)>>, <<>>, "none")
            ELSE Outcome(h, <<>>, <<>>, "none")

\* A __set__ that keeps the value on the descriptor, which every instance of
\* the class shares, instead of on the instance written to.
SetStoresOnDescriptor(h, obj, name, value) ==
    IF value[1] = "descriptor" THEN Outcome(h, <<>>, <<>>, "none")
    ELSE IF value = NoneValue THEN Outcome(h, <<>>, <<>>, "ValueError")
    ELSE IF ~validate(name, value).ok
         THEN Outcome(h, <<>>, <<>>, validate(name, value).err)
    ELSE LET v == validate(name, value).value
         IN IF ~PyEq(v, getattr(h, obj, name))
            THEN Outcome([o \in Objects |->
                             IF h[o].cls = h[obj].cls
                             THEN [h[o] EXCEPT !.attrs[name] = v] ELSE h[o]],
                         <<ApplyCall(obj, name, v)>>, <<>>, "none")
            ELSE Outcome(h, <<>>, <<>>, "none")

\* validated_property.__set__
validated_property__set__(h, obj, name, value) ==
    IF value[1] = "descriptor" THEN Outcome(h, <<>>, <<>>, "none")
    ELSE IF value = NoneValue THEN Outcome(h, <<>>, <<>>, "ValueError")
    ELSE IF ~validate(name, value).ok
         THEN Outcome(h, <<>>, <<>>, validate(name, value).err)
    ELSE LET v == validate(name, value).value
         IN IF ~PyEq(v, getattr(h, obj, name))
            THEN Outcome([h EXCEPT ![obj].attrs[name] = v],
                         <<ApplyCall(obj, name, v)>>, <<>>, "none")
            ELSE Outcome(h, <<>>, <<>>, "none")

\* A __delete__ that leaves the initial value stored instead of removing
\* the attribute.
DeleteStoresInitial(h, obj, name) ==
    IF h[obj].attrs[name] = Unset THEN Outcome(h, <<>>, <<>>, "none")
    ELSE Outcome([h EXCEPT ![obj].attrs[name] = initial(name)],
                 <<ApplyCall(obj, name, initial(name))>>, <<>>, "none")

\* A __delete__ that applies whether or not the attribute was there.
DeleteAlwaysApplies(h, obj, name) ==
    Outcome([h EXCEPT ![obj].attrs[name] = Unset],
            <<ApplyCall(obj, name, initial(name))>>, <<>>, "none")

\* validated_property.__delete__
validated_property__delete__(h, obj, name) ==
    IF h[obj].attrs[name] = Unset
    THEN \* delattr raised AttributeError: pass
         Outcome(h, <<>>, <<>>, "none")
    ELSE Outcome([h EXCEPT ![obj].attrs[name] = Unset],
                 <<ApplyCall(obj, name, initial(name))>>, <<>>, "none")

\* F(v), with v computed once before F reads it.
With(v, F(_)) == CHOOSE y \in {F(x) : x \in {v}} : TRUE

RECURSIVE ReapplyFrom(_, _, _)
ReapplyFrom(h, obj, i) ==
    LET names == _PROPERTIES(h[obj].cls)
    IN IF i > Len(names) THEN <<>>
       ELSE <<ApplyCall(obj, names[i], validated_property__get__(h, obj, names[i]))>>
            \o ReapplyFrom(h, obj, i + 1)

\* A reapply() that skips the properties that are not set.
ReapplySetOnly(h, obj) ==
    Outcome(h, SelectSeq(ReapplyFrom(h, obj, 1),
                         LAMBDA call : is_set_on(h, obj, call.name)),
            <<obj>>, "none")

\* BaseStyle.reapply, and the reapply of BrokenStyle that overrides it
reapply(h, obj) ==
    IF h[obj].cls = BrokenStyle THEN Outcome(h, <<>>, <<obj>>, "AttributeError")
    ELSE Outcome(h, ReapplyFrom(h, obj, 1), <<obj>>, "none")

RECURSIVE UpdateFrom(_, _, _, _, _)
\* BaseStyle.update(**src) on dup: dup[name] = src[name] for each name that
\* src contains; the first failing write ends it.
UpdateFrom(h, dup, src, i, applies) ==
    LET names == _PROPERTIES(h[src].cls)
    IN IF i > Len(names) THEN Outcome(h, applies, <<>>, "none")
       ELSE IF ~contains(h, src, names[i])
            THEN UpdateFrom(h, dup, src, i + 1, applies)
       ELSE With(validated_property__set__(
                     h, dup, names[i],
                     validated_property__get__(h, src, names[i])),
                 LAMBDA r :
                     IF r.err # "none"
                     THEN Outcome(r.heap, applies \o r.applies, <<>>, r.err)
                     ELSE UpdateFrom(r.heap, dup, src, i + 1,
                                     applies \o r.applies))

\* The place a new object takes: any free one; the model takes the lowest.
Allocate(h) == CHOOSE o \in Objects \ Alive(h) :
                   \A p \in Objects \ Alive(h) : o <= p

\* BaseStyle.copy(): dup = self.__class__(); dup.update(**self)
copy(h, src) ==
    With(Allocate(h), LAMBDA dup :
        With(UpdateFrom([h EXCEPT ![dup] = NewObject(h[src].cls)], dup, src,
                        1, <<>>),
             LAMBDA r : [obj |-> dup, heap |-> r.heap, applies |-> r.applies,
                         err |-> r.err]))

(***************************************************************************)
(* The dict-like interface of BaseStyle and directional properties         *)
(***************************************************************************)
\* name.replace("-", "_"), for the names hosts use.
replace_hyphens(name) ==
    IF name = "thing-top" THEN "thing_top"
    ELSE IF name = "list-prop" THEN "list_prop"
    ELSE name

\* A keys() that goes over _ALL_PROPERTIES instead of _PROPERTIES.
KeysOverAllProperties(h, obj) ==
    {name \in _ALL_PROPERTIES(h[obj].cls) : contains(h, obj, name)}

\* BaseStyle.keys / __iter__: the names, as a set
keys(h, obj) == {name \in PropertySet(h[obj].cls) : contains(h, obj, name)}

RECURSIVE ItemsFrom(_, _, _)
ItemsFrom(h, obj, i) ==
    LET names == _PROPERTIES(h[obj].cls)
    IN IF i > Len(names) THEN <<>>
       ELSE (IF contains(h, obj, names[i])
             THEN <<<<names[i], validated_property__get__(h, obj, names[i])>>>>
             ELSE <<>>) \o ItemsFrom(h, obj, i + 1)

\* BaseStyle.items
items(h, obj) == ItemsFrom(h, obj, 1)

\* BaseStyle.__len__
len(h, obj) == Cardinality(keys(h, obj))

\* BaseStyle.__setitem__ for a primary property (setattr reaches
\* validated_property.__set__)
SetPrimaryItem(h, obj, name, value) ==
    IF name \in PropertySet(h[obj].cls)
    THEN validated_property__set__(h, obj, name, value)
    ELSE Outcome(h, <<>>, <<>>, "KeyError")

RECURSIVE DirectionalSetFrom(_, _, _, _, _, _)
\* directional_property.__set__: the loop over the directions; a write that
\* raises ends it, and what the earlier writes did stays.
DirectionalSetFrom(h, obj, name, values, i, applies) ==
    IF i > Len(DIRECTIONS) THEN Outcome(h, applies, <<>>, "none")
    ELSE With(SetPrimaryItem(h, obj, format(name, DIRECTIONS[i]),
                             values[ASSIGNMENT_SCHEMES[Len(values)][i]]),
              LAMBDA r :
                  IF r.err # "none"
                  THEN Outcome(r.heap, applies \o r.applies, <<>>, r.err)
                  ELSE DirectionalSetFrom(r.heap, obj, name, values, i + 1,
                                          applies \o r.applies))

\* A directional __set__ that assigns (top, right, bottom, left) from the
\* elements in their own order, repeating the last one.
DirectionalSetInOrder(h, obj, name, value) ==
    LET values == IF IsTuple(value) THEN value[2] ELSE <<value>>
        padded == [i \in 1..4 |-> values[IF i <= Len(values) THEN i
                                         ELSE Len(values)]]
    IN IF value[1] = "descriptor" THEN Outcome(h, <<>>, <<>>, "none")
       ELSE IF Len(values) \notin DOMAIN ASSIGNMENT_SCHEMES
            THEN Outcome(h, <<>>, <<>>, "ValueError")
       ELSE DirectionalSetFrom(h, obj, name, padded, 1, <<>>)

\* directional_property.__set__
directional_property__set__(h, obj, name, value) ==
    LET values == IF IsTuple(value) THEN value[2] ELSE <<value>>
    IN IF value[1] = "descriptor" THEN Outcome(h, <<>>, <<>>, "none")
       ELSE IF Len(values) \in DOMAIN ASSIGNMENT_SCHEMES
            THEN DirectionalSetFrom(h, obj, name, values, 1, <<>>)
       ELSE Outcome(h, <<>>, <<>>, "ValueError")

\* directional_property.__get__
directional_property__get__(h, obj, name) ==
    PyTuple([i \in 1..Len(DIRECTIONS) |->
                 validated_property__get__(h, obj, format(name, DIRECTIONS[i]))])

RECURSIVE DirectionalDeleteFrom(_, _, _, _, _)
DirectionalDeleteFrom(h, obj, name, i, applies) ==
    IF i > Len(DIRECTIONS) THEN Outcome(h, applies, <<>>, "none")
    ELSE With(validated_property__delete__(h, obj, format(name, DIRECTIONS[i])),
              LAMBDA r : DirectionalDeleteFrom(r.heap, obj, name, i + 1,
                                               applies \o r.applies))

\* directional_property.__delete__
directional_property__delete__(h, obj, name) ==
    DirectionalDeleteFrom(h, obj, name, 1, <<>>)

\* BaseStyle.__getitem__: the value, or KeyError
getitem(h, obj, key) ==
    LET name == replace_hyphens(key)
    IN IF name \notin _ALL_PROPERTIES(h[obj].cls)
       THEN [ok |-> FALSE, value |-> NoneValue, err |-> "KeyError"]
       ELSE IF name \in DirectionalNames(h[obj].cls)
            THEN Ok(directional_property__get__(h, obj, name))
       ELSE Ok(validated_property__get__(h, obj, name))

\* BaseStyle.__setitem__
setitem(h, obj, key, value) ==
    LET name == replace_hyphens(key)
    IN IF name \notin _ALL_PROPERTIES(h[obj].cls)
       THEN Outcome(h, <<>>, <<>>, "KeyError")
       ELSE IF name \in DirectionalNames(h[obj].cls)
            THEN directional_property__set__(h, obj, name, value)
       ELSE validated_property__set__(h, obj, name, value)

\* BaseStyle.__delitem__
delitem(h, obj, key) ==
    LET name == replace_hyphens(key)
    IN IF name \notin _ALL_PROPERTIES(h[obj].cls)
       THEN Outcome(h, <<>>, <<>>, "KeyError")
       ELSE IF name \in DirectionalNames(h[obj].cls)
            THEN directional_property__delete__(h, obj, name)
       ELSE validated_property__delete__(h, obj, name)

RECURSIVE UpdateEach(_, _, _, _, _)
\* BaseStyle.update: the loop over styles.items(), a sequence of
\* <<name, value>>; an unknown name or a write that raises ends it, and what
\* the earlier writes did stays.
UpdateEach(h, obj, styles, i, applies) ==
    IF i > Len(styles) THEN Outcome(h, applies, <<>>, "none")
    ELSE IF replace_hyphens(styles[i][1]) \notin _ALL_PROPERTIES(h[obj].cls)
         THEN Outcome(h, applies, <<>>, "NameError")
    ELSE With(setitem(h, obj, replace_hyphens(styles[i][1]), styles[i][2]),
              LAMBDA r :
                  IF r.err # "none"
                  THEN Outcome(r.heap, applies \o r.applies, <<>>, r.err)
                  ELSE UpdateEach(r.heap, obj, styles, i + 1,
                                  applies \o r.applies))

\* BaseStyle.update(**styles)
update(h, obj, styles) == UpdateEach(h, obj, styles, 1, <<>>)

\* A mapping operand, and a declaration operand, of | and |=.
Mapping(pairs) == <<"mapping", pairs>>
StyleRef(obj) == <<"style", obj>>

\* BaseStyle.__ior__: NotImplemented ends as the TypeError of the operator.
ior(h, obj, other) ==
    IF other[1] = "style"
    THEN IF h[obj].cls # h[other[2]].cls
         THEN Outcome(h, <<>>, <<>>, "TypeError")
         ELSE update(h, obj, items(h, other[2]))
    ELSE IF other[1] # "mapping" THEN Outcome(h, <<>>, <<>>, "TypeError")
    ELSE update(h, obj, other[2])

\* BaseStyle.__or__: result = self.copy(); result.update(**other); the
\* outcome names the result in obj.  NotImplemented, for a declaration of
\* another class or an operand that is no mapping, ends as the TypeError of
\* the operator; obj is None where no result was built.
__or__(h, obj, other) ==
    IF (other[1] = "style" /\ h[obj].cls # h[other[2]].cls)
       \/ other[1] \notin {"style", "mapping"}
    THEN [obj |-> None, heap |-> h, applies |-> <<>>, err |-> "TypeError"]
    ELSE With(copy(h, obj), LAMBDA c :
             IF c.err # "none" THEN c
             ELSE With(update(c.heap, c.obj,
                              IF other[1] = "style"
                              THEN items(c.heap, other[2]) ELSE other[2]),
                       LAMBDA r : [obj |-> c.obj, heap |-> r.heap,
                                   applies |-> c.applies \o r.applies,
                                   err |-> r.err]))

(***************************************************************************)
(* Node.style and Node.applicator                                          *)
(***************************************************************************)
\* The node before Node.__init__ has run.
NoNode == [constructed |-> FALSE, _style |-> None, _applicator |-> None]

NodeOutcome(sl, h, applies, reapplied, err) ==
    [slots |-> sl, heap |-> h, applies |-> applies, reapplied |-> reapplied,
     err |-> err, warnings |-> <<>>]

\* except AttributeError: warn(..., DeprecationWarning) - the warnings a
\* setter emits for what reapply() raised.
Warned(err) == IF err = "AttributeError" THEN <<"DeprecationWarning">> ELSE <<>>

\* The declaration at obj is no longer referenced: its place is free again.
Release(h, obj) == IF obj = None THEN h ELSE [h EXCEPT ![obj] = FreeObject]

\* A style setter that binds the applicator but never calls reapply().
StyleSetterWithoutReapply(sl, h, style) ==
    IF style = None
    THEN NodeOutcome([sl EXCEPT !._style = None], Release(h, sl._style),
                     <<>>, <<>>, "none")
    ELSE With(copy(h, style), LAMBDA c :
             NodeOutcome([sl EXCEPT !._style = c.obj],
                         [Release(c.heap, sl._style)
                              EXCEPT ![c.obj]._assigned_applicator =
                                         sl._applicator],
                         c.applies, <<>>, "none"))

\* A style setter without the except clause: what reapply() raises leaves
\* the setter, after the copy was stored and bound.
StyleSetterPropagatesError(sl, h, style) ==
    IF style = None
    THEN NodeOutcome([sl EXCEPT !._style = None], Release(h, sl._style),
                     <<>>, <<>>, "none")
    ELSE With(copy(h, style), LAMBDA c :
             IF c.err # "none"
             THEN NodeOutcome(sl, h, c.applies, <<>>, c.err)
             ELSE IF sl._applicator # None
             THEN With(reapply([Release(c.heap, sl._style)
                                    EXCEPT ![c.obj]._assigned_applicator =
                                               sl._applicator], c.obj),
                       LAMBDA r :
                           NodeOutcome([sl EXCEPT !._style = c.obj], r.heap,
                                       c.applies \o r.applies, r.reapplied,
                                       r.err))
             ELSE NodeOutcome([sl EXCEPT !._style = c.obj],
                              Release(c.heap, sl._style), c.applies, <<>>,
                              "none"))

\* Node.style setter
style_setter(sl, h, style) ==
    IF style = None
    THEN NodeOutcome([sl EXCEPT !._style = None], Release(h, sl._style),
                     <<>>, <<>>, "none")
    ELSE With(copy(h, style), LAMBDA c :
             IF c.err # "none"
             THEN \* style.copy() raised: self._style is not assigned
                  NodeOutcome(sl, h, c.applies, <<>>, c.err)
             ELSE IF sl._applicator # None
             THEN With(reapply([Release(c.heap, sl._style)
                                    EXCEPT ![c.obj]._assigned_applicator =
                                               sl._applicator], c.obj),
                       LAMBDA r :
                           [NodeOutcome([sl EXCEPT !._style = c.obj], r.heap,
                                        c.applies \o r.applies, r.reapplied,
                                        "none")
                              EXCEPT !.warnings = Warned(r.err)])
             ELSE NodeOutcome([sl EXCEPT !._style = c.obj],
                              Release(c.heap, sl._style), c.applies, <<>>,
                              "none"))

\* An applicator setter that calls reapply() for a None applicator too.
ApplicatorSetterAlwaysReapplies(sl, h, a) ==
    IF sl._style # None
    THEN With(reapply([h EXCEPT ![sl._style]._assigned_applicator = a],
                      sl._style),
              LAMBDA r : NodeOutcome([sl EXCEPT !._applicator = a], r.heap,
                                     r.applies, r.reapplied, "none"))
    ELSE NodeOutcome([sl EXCEPT !._applicator = a], h, <<>>, <<>>, "none")

\* An applicator setter that touches the style only for an applicator that
\* is not None.
ApplicatorSetterBindsInsideIf(sl, h, a) ==
    IF sl._style # None /\ a # None
    THEN With(reapply([h EXCEPT ![sl._style]._assigned_applicator = a],
                      sl._style),
              LAMBDA r : NodeOutcome([sl EXCEPT !._applicator = a], r.heap,
                                     r.applies, r.reapplied, "none"))
    ELSE NodeOutcome([sl EXCEPT !._applicator = a], h, <<>>, <<>>, "none")

\* Node.applicator setter
applicator_setter(sl, h, a) ==
    IF sl._style # None
    THEN With([h EXCEPT ![sl._style]._assigned_applicator = a], LAMBDA h1 :
             IF a # None
             THEN With(reapply(h1, sl._style), LAMBDA r :
                      [NodeOutcome([sl EXCEPT !._applicator = a], r.heap,
                                   r.applies, r.reapplied, "none")
                         EXCEPT !.warnings = Warned(r.err)])
             ELSE NodeOutcome([sl EXCEPT !._applicator = a], h1, <<>>, <<>>,
                              "none"))
    ELSE NodeOutcome([sl EXCEPT !._applicator = a], h, <<>>, <<>>, "none")

\* Node.__init__: self.applicator = applicator; self.style = style
Node__init__(h, style, a) ==
    With(applicator_setter(NoNode, h, a), LAMBDA r1 :
        With(style_setter(r1.slots, r1.heap, style), LAMBDA r2 :
            IF r2.err # "none"
            THEN NodeOutcome(NoNode, h, r1.applies \o r2.applies,
                             r1.reapplied \o r2.reapplied, r2.err)
            ELSE [NodeOutcome([r2.slots EXCEPT !.constructed = TRUE], r2.heap,
                              r1.applies \o r2.applies,
                              r1.reapplied \o r2.reapplied, "none")
                    EXCEPT !.warnings = r1.warnings \o r2.warnings]))

(***************************************************************************)
(* The calls of PropSpec and BindSpec                                      *)
(***************************************************************************)
\* The record of a call: before is the attribute as it was stored before the
\* call and previous the node's slots before it; applies and reapplied are
\* the apply(name, value) calls and the objects whose reapply() was called,
\* in order.
NoStyleCall == [op |-> "init", obj |-> None, name |-> "", value |-> NoneValue,
                before |-> Unset, style |-> None, applicator |-> None,
                previous |-> NoNode, result |-> NoneValue,
                err |-> "none", applies |-> <<>>, reapplied |-> <<>>,
                warnings |-> <<>>]

\* The values a host writes to a property.
RawValues(name) ==
    IF name = "list_prop"
    THEN {PyList(<<PyStr(<<" ", "0">>)>>), PyStr(<<" ", "0">>),
          PyTuple(<<PyStr(<<"1", " ">>), PyFloat(25)>>),
          PyList(<<PyInt(1), PyStr(<<"x">>)>>), PyList(<<>>), PyInt(1),
          ImmutableList(<<PyInt(1)>>), NoneValue, Descriptor(name)}
    ELSE IF name \in {"thing_top", "thing_right", "thing_bottom", "thing_left"}
    THEN {PyInt(1), PyStr(<<" ", "2">>), PyStr(<<"x">>), NoneValue}
    ELSE IF name = "int_prop"
    THEN {PyInt(5), PyInt(6), PyStr(<<" ", "5">>), PyFloat(65), PyStr(<<"x">>),
          NoneValue, Descriptor(name)}
    ELSE {NONE, REBECCAPURPLE, PyStr(<<" ", "x", " ">>), PyStr(<<"x">>),
          PyInt(10), PyStr(<<"10", " ">>), PyFloat(65), NoneValue,
          Descriptor(name)}

\* style.<name> = value
WriteStep == \E obj \in Alive(heap) :
    \E name \in PropertySet(heap[obj].cls) : \E value \in RawValues(name) :
        \E r \in {validated_property__set__(heap, obj, name, value)} :
           /\ heap' = r.heap
           /\ slast' = [NoStyleCall EXCEPT !.op = "write", !.obj = obj,
                            !.name = name, !.value = value,
                            !.before = heap[obj].attrs[name], !.err = r.err,
                            !.applies = r.applies, !.reapplied = r.reapplied]
           /\ UNCHANGED <<slots, treeVars>>

\* del style.<name>
DeleteStep == \E obj \in Alive(heap) :
    \E name \in PropertySet(heap[obj].cls) :
        \E r \in {validated_property__delete__(heap, obj, name)} :
           /\ heap' = r.heap
           /\ slast' = [NoStyleCall EXCEPT !.op = "delete", !.obj = obj,
                            !.name = name,
                            !.before = heap[obj].attrs[name], !.err = r.err,
                            !.applies = r.applies, !.reapplied = r.reapplied]
           /\ UNCHANGED <<slots, treeVars>>

\* Node(style, applicator)
ConstructStep ==
    /\ ~slots.constructed
    /\ \E style \in Alive(heap) \cup {None}, a \in Applicators \cup {None} :
        \E r \in {Node__init__(heap, style, a)} :
           /\ heap' = r.heap
           /\ slots' = r.slots
           /\ slast' = [NoStyleCall EXCEPT !.op = "__init__", !.style = style,
                            !.previous = slots,
                            !.applicator = a, !.err = r.err,
                            !.applies = r.applies, !.reapplied = r.reapplied,
                            !.warnings = r.warnings]
           /\ UNCHANGED treeVars

\* node.style = style
SetStyleStep ==
    /\ slots.constructed
    /\ \E style \in Alive(heap) \cup {None} :
        \E r \in {style_setter(slots, heap, style)} :
           /\ heap' = r.heap
           /\ slots' = r.slots
           /\ slast' = [NoStyleCall EXCEPT !.op = "style", !.style = style,
                            !.previous = slots,
                            !.err = r.err,
                            !.applies = r.applies, !.reapplied = r.reapplied,
                            !.warnings = r.warnings]
           /\ UNCHANGED treeVars

\* node.applicator = a
SetApplicatorStep ==
    /\ slots.constructed
    /\ \E a \in Applicators \cup {None} :
        \E r \in {applicator_setter(slots, heap, a)} :
           /\ heap' = r.heap
           /\ slots' = r.slots
           /\ slast' = [NoStyleCall EXCEPT !.op = "applicator",
                            !.applicator = a, !.previous = slots, !.err = r.err,
                            !.applies = r.applies, !.reapplied = r.reapplied,
                            !.warnings = r.warnings]
           /\ UNCHANGED treeVars

\* The values a host writes to a directional property.
DirectionalValues ==
    {PyInt(1), PyTuple(<<>>), PyTuple(<<PyStr(<<"2", " ">>)>>),
     PyTuple(<<PyInt(1), PyInt(2)>>),
     PyTuple(<<PyInt(1), PyInt(1), PyInt(2)>>),
     PyTuple(<<PyInt(2), PyInt(1), PyInt(1), PyFloat(25)>>),
     PyTuple(<<PyInt(1), PyInt(2), PyInt(2), PyInt(1), PyInt(1)>>),
     PyTuple(<<PyInt(2), PyStr(<<"x">>)>>),
     PyTuple(<<PyInt(1), PyInt(2), NoneValue>>),
     PyStr(<<"x">>)}

\* The keys a host passes to style[key].
ItemKeys == {"thing-top", "thing_left", "list-prop", "thing", "bogus"}

\* The values a host writes through style[key] = value.
ItemValues == {PyInt(2), NoneValue, PyTuple(<<PyInt(2), PyInt(1)>>)}

\* The keyword arguments and mappings a host passes to update() and |=.
UpdateArguments ==
    {<< <<"thing_top", PyInt(2)>>, <<"list-prop", PyStr(<<"0">>)>> >>,
     << <<"thing-top", PyInt(1)>>, <<"bogus", PyInt(1)>> >>,
     << <<"thing_right", PyInt(1)>>, <<"thing_left", PyStr(<<"x">>)>> >>,
     << <<"bogus", PyInt(1)>>, <<"thing_top", PyInt(1)>> >>}

\* The right-hand sides of style |= other: mappings, and no mapping.
IorOperands ==
    {Mapping(<< <<"thing", PyTuple(<<PyInt(2), PyInt(1)>>)>>,
                <<"list_prop", PyList(<<>>)>> >>),
     Mapping(<< <<"thing_bottom", PyInt(2)>> >>),
     PyInt(1)}

\* style.<name> = value, for a directional name
DirectionalWriteStep == \E obj \in Alive(heap) :
    \E name \in DirectionalNames(heap[obj].cls) :
        \E value \in DirectionalValues :
            \E r \in {directional_property__set__(heap, obj, name, value)} :
               /\ heap' = r.heap
               /\ slast' = [NoStyleCall EXCEPT !.op = "directional_write",
                                !.obj = obj, !.name = name, !.value = value,
                                !.err = r.err, !.applies = r.applies]
               /\ UNCHANGED <<slots, treeVars>>

\* del style.<name>, for a directional name
DirectionalDeleteStep == \E obj \in Alive(heap) :
    \E name \in DirectionalNames(heap[obj].cls) :
        \E r \in {directional_property__delete__(heap, obj, name)} :
           /\ heap' = r.heap
           /\ slast' = [NoStyleCall EXCEPT !.op = "directional_delete",
                            !.obj = obj, !.name = name,
                            !.err = r.err, !.applies = r.applies]
           /\ UNCHANGED <<slots, treeVars>>

\* style[key]
GetItemStep == \E obj \in Alive(heap) : \E key \in ItemKeys :
    /\ slast' = [NoStyleCall EXCEPT !.op = "getitem", !.obj = obj,
                     !.name = key, !.result = getitem(heap, obj, key).value,
                     !.err = getitem(heap, obj, key).err]
    /\ UNCHANGED <<heap, slots, treeVars>>

\* style[key] = value
SetItemStep == \E obj \in Alive(heap) : \E key \in ItemKeys :
    \E value \in ItemValues :
        \E r \in {setitem(heap, obj, key, value)} :
           /\ heap' = r.heap
           /\ slast' = [NoStyleCall EXCEPT !.op = "setitem", !.obj = obj,
                            !.name = key, !.value = value,
                            !.err = r.err, !.applies = r.applies]
           /\ UNCHANGED <<slots, treeVars>>

\* del style[key]
DelItemStep == \E obj \in Alive(heap) : \E key \in ItemKeys :
    \E r \in {delitem(heap, obj, key)} :
       /\ heap' = r.heap
       /\ slast' = [NoStyleCall EXCEPT !.op = "delitem", !.obj = obj,
                        !.name = key, !.err = r.err, !.applies = r.applies]
       /\ UNCHANGED <<slots, treeVars>>

\* style.update(**styles)
UpdateStep == \E obj \in Alive(heap) : \E styles \in UpdateArguments :
    \E r \in {update(heap, obj, styles)} :
       /\ heap' = r.heap
       /\ slast' = [NoStyleCall EXCEPT !.op = "update", !.obj = obj,
                        !.value = Mapping(styles),
                        !.err = r.err, !.applies = r.applies]
       /\ UNCHANGED <<slots, treeVars>>

\* style |= other, for a mapping or something that is no mapping
IorStep == \E obj \in Alive(heap) :
    \E other \in IorOperands :
        \E r \in {ior(heap, obj, other)} :
           /\ heap' = r.heap
           /\ slast' = [NoStyleCall EXCEPT !.op = "ior", !.obj = obj,
                            !.value = other,
                            !.err = r.err, !.applies = r.applies]
           /\ UNCHANGED <<slots, treeVars>>

\* style.reapply()
ReapplyStep == \E obj \in Alive(heap) :
    \E r \in {reapply(heap, obj)} :
       /\ heap' = r.heap
       /\ slast' = [NoStyleCall EXCEPT !.op = "reapply", !.obj = obj,
                        !.err = r.err, !.applies = r.applies,
                        !.reapplied = r.reapplied]
       /\ UNCHANGED <<slots, treeVars>>

\* The writes of CopySpec: <<name, value>>.
CopyWrites ==
    {<<"thing_top", PyInt(1)>>, <<"thing_top", PyStr(<<" ", "2">>)>>,
     <<"list_prop", PyStr(<<" ", "0">>)>>}

\* style.<name> = value, for the names and values of CopyWrites
CopyWriteStep == \E obj \in Alive(heap) : \E w \in CopyWrites :
    \E r \in {validated_property__set__(heap, obj, w[1], w[2])} :
       /\ heap' = r.heap
       /\ slast' = [NoStyleCall EXCEPT !.op = "write", !.obj = obj,
                        !.name = w[1], !.value = w[2],
                        !.before = heap[obj].attrs[w[1]], !.err = r.err,
                        !.applies = r.applies]
       /\ UNCHANGED <<slots, treeVars>>

\* del style.<name>, for the names of CopyWrites
CopyDeleteStep == \E obj \in Alive(heap) : \E w \in CopyWrites :
    \E r \in {validated_property__delete__(heap, obj, w[1])} :
       /\ heap' = r.heap
       /\ slast' = [NoStyleCall EXCEPT !.op = "delete", !.obj = obj,
                        !.name = w[1],
                        !.before = heap[obj].attrs[w[1]], !.err = r.err,
                        !.applies = r.applies]
       /\ UNCHANGED <<slots, treeVars>>

\* dup = style.copy(): the host keeps the duplicate; a copy() that raises
\* leaves no new object behind.
CopyStep ==
    /\ Objects \ Alive(heap) # {}
    /\ \E src \in Alive(heap) :
        \E r \in {copy(heap, src)} :
           /\ heap' = IF r.err = "none" THEN r.heap ELSE Release(r.heap, r.obj)
           /\ slast' = [NoStyleCall EXCEPT !.op = "copy", !.obj = src,
                            !.style = IF r.err = "none" THEN r.obj ELSE None,
                            !.err = r.err, !.applies = r.applies]
           /\ UNCHANGED <<slots, treeVars>>

\* The host drops a duplicate it held.
DiscardStep ==
    \E obj \in Alive(heap) \ {1, slots._style} :
        /\ heap' = Release(heap, obj)
        /\ slast' = [NoStyleCall EXCEPT !.op = "discard", !.obj = obj]
        /\ UNCHANGED <<slots, treeVars>>

\* Node(style, applicator), while there is room for the copy
CopyConstructStep == Objects \ Alive(heap) # {} /\ ConstructStep

\* node.style = style, while there is room for the copy
CopySetStyleStep == Objects \ Alive(heap) # {} /\ SetStyleStep

(***************************************************************************)
(* Node properties                                                         *)
(***************************************************************************)
\* Node.root: self._root if self._root else self
root(rt, n) == IF rt[n] # None THEN rt[n] ELSE n

\* Node.children: always a list, [] for a leaf
children(ch, n) == IF ch[n] = NoChildren THEN <<>> ELSE ch[n]

\* Node.can_have_children
can_have_children(ch, n) == ch[n] # NoChildren

(***************************************************************************)
(* Node._set_root: depth-first propagation of a root through node.children.*)
(* The result is the new _root map and whether the walk returned; the walk *)
(* does not return (RecursionError) when it passes the recursion limit,    *)
(* and the nodes it reached before that keep the root it gave them.        *)
(***************************************************************************)
RECURSIVE SetRootFrom(_, _, _, _, _)
RECURSIVE SetRootEach(_, _, _, _, _, _)

SetRootFrom(ch, rt, node, newRoot, fuel) ==
    IF fuel = 0
    THEN [rt |-> rt, ok |-> FALSE]
    ELSE SetRootEach(ch, [rt EXCEPT ![node] = newRoot], children(ch, node), 1,
                     newRoot, fuel - 1)

SetRootEach(ch, rt, seq, i, newRoot, fuel) ==
    IF i > Len(seq)
    THEN [rt |-> rt, ok |-> TRUE]
    ELSE LET r == SetRootFrom(ch, rt, seq[i], newRoot, fuel)
         IN IF r.ok THEN SetRootEach(ch, r.rt, seq, i + 1, newRoot, fuel)
                    ELSE r

\* A propagation that stops at the node itself.
SetRootOfNodeOnly(ch, rt, node, newRoot) ==
    [rt |-> [rt EXCEPT ![node] = newRoot], ok |-> TRUE]

_set_root(ch, rt, node, newRoot) == SetRootFrom(ch, rt, node, newRoot, RecursionLimit)

(***************************************************************************)
(* list.insert and list.remove of the standard library                      *)
(***************************************************************************)
\* list.insert(index, x): a negative index counts from the end, and the
\* position is clamped to 0..len.
ListInsertPos(seq, index) ==
    LET i == IF index < 0 THEN index + Len(seq) ELSE index
    IN IF i < 0 THEN 0 ELSE IF i > Len(seq) THEN Len(seq) ELSE i

\* A list.insert that ignores the index and appends.
ListInsertAtEnd(seq, index, x) == Append(seq, x)

ListInsert(seq, index, x) ==
    LET k == ListInsertPos(seq, index)
    IN SubSeq(seq, 1, k) \o <<x>> \o SubSeq(seq, k + 1, Len(seq))

Contains(seq, x) == \E i \in 1..Len(seq) : seq[i] = x

\* list.remove(x): removes the first occurrence.
ListRemove(seq, x) ==
    LET k == CHOOSE i \in 1..Len(seq) :
                 seq[i] = x /\ \A j \in 1..(i - 1) : seq[j] # x
    IN SubSeq(seq, 1, k - 1) \o SubSeq(seq, k + 1, Len(seq))

(***************************************************************************)
(* Node.add                                                                *)
(***************************************************************************)
add(self, child) ==
    IF _children[self] = NoChildren
    THEN /\ last' = Call("add", self, child, None, "ValueError")
         /\ UNCHANGED <<_children, _parent, _root, applicator, styleVars>>
    ELSE LET ch == [_children EXCEPT ![self] = Append(@, child)]
             r  == _set_root(ch, _root, child, root(_root, self))
         IN /\ _children' = ch
            /\ _parent' = [_parent EXCEPT ![child] = self]
            /\ _root' = r.rt
            /\ last' = Call("add", self, child, None,
                            IF r.ok THEN "none" ELSE "RecursionError")
            /\ UNCHANGED <<applicator, styleVars>>

(***************************************************************************)
(* Node.insert                                                             *)
(***************************************************************************)
insert(self, index, child) ==
    IF _children[self] = NoChildren
    THEN /\ last' = Call("insert", self, child, index, "ValueError")
         /\ UNCHANGED <<_children, _parent, _root, applicator, styleVars>>
    ELSE LET ch == [_children EXCEPT ![self] = ListInsert(@, index, child)]
             r  == _set_root(ch, _root, child, root(_root, self))
         IN /\ _children' = ch
            /\ _parent' = [_parent EXCEPT ![child] = self]
            /\ _root' = r.rt
            /\ last' = Call("insert", self, child, index,
                            IF r.ok THEN "none" ELSE "RecursionError")
            /\ UNCHANGED <<applicator, styleVars>>

(***************************************************************************)
(* Node.remove                                                             *)
(***************************************************************************)
remove(self, child) ==
    IF _children[self] = NoChildren \/ ~Contains(_children[self], child)
    THEN \* a leaf, or list.remove(x) with x not in the list
         /\ last' = Call("remove", self, child, None, "ValueError")
         /\ UNCHANGED <<_children, _parent, _root, applicator, styleVars>>
    ELSE LET ch == [_children EXCEPT ![self] = ListRemove(@, child)]
             r  == _set_root(ch, _root, child, None)
         IN /\ _children' = ch
            /\ _parent' = [_parent EXCEPT ![child] = None]
            /\ _root' = r.rt
            /\ last' = [Call("remove", self, child, None,
                             IF r.ok THEN "none" ELSE "RecursionError")
                          EXCEPT !.removed = <<child>>]
            /\ UNCHANGED <<applicator, styleVars>>

(***************************************************************************)
(* Node.clear: the loop over self._children, then self._children = []      *)
(***************************************************************************)
RECURSIVE ClearEach(_, _, _, _, _)
ClearEach(ch, pa, rt, seq, i) ==
    IF i > Len(seq)
    THEN [pa |-> pa, rt |-> rt, ok |-> TRUE]
    ELSE LET pa1 == [pa EXCEPT ![seq[i]] = None]
             r   == _set_root(ch, rt, seq[i], None)
         IN IF r.ok THEN ClearEach(ch, pa1, r.rt, seq, i + 1)
                    ELSE [pa |-> pa1, rt |-> r.rt, ok |-> FALSE]

clear(self) ==
    IF _children[self] = NoChildren
    THEN \* "This is a leaf, so do nothing."
         /\ last' = Call("clear", self, None, None, "none")
         /\ UNCHANGED <<_children, _parent, _root, applicator, styleVars>>
    ELSE LET r == ClearEach(_children, _parent, _root, _children[self], 1)
         IN /\ _parent' = r.pa
            /\ _root' = r.rt
            /\ _children' = IF r.ok THEN [_children EXCEPT ![self] = <<>>]
                                    ELSE _children
            /\ last' = [Call("clear", self, None, None,
                             IF r.ok THEN "none" ELSE "RecursionError")
                          EXCEPT !.removed = IF r.ok THEN _children[self] ELSE <<>>]
            /\ UNCHANGED <<applicator, styleVars>>

(***************************************************************************)
(* Node.refresh: redirect along _root, then layout and set_bounds          *)
(***************************************************************************)
RECURSIVE RefreshTarget(_, _, _)
\* The node whose else-branch runs, or None when the redirection passes the
\* recursion limit.
RefreshTarget(rt, n, fuel) ==
    IF fuel = 0 THEN None
    ELSE IF rt[n] # None THEN RefreshTarget(rt, rt[n], fuel - 1)
    ELSE n

refresh(self, viewport) ==
    LET t == RefreshTarget(_root, self, RecursionLimit)
    IN /\ last' =
            IF t = None
            THEN [Call("refresh", self, None, None, "RecursionError")
                    EXCEPT !.viewport = viewport]
            ELSE [Call("refresh", self, None, None, "none")
                    EXCEPT !.viewport = viewport,
                           !.layouts = <<[node |-> t, viewport |-> viewport]>>,
                           !.bounds = IF applicator[t] # None
                                      THEN <<applicator[t]>> ELSE <<>>]
       /\ UNCHANGED <<_children, _parent, _root, applicator, styleVars>>

(***************************************************************************)
(* Node.__init__ of every node: no parent, no root, and children None (a   *)
(* leaf, here the even nodes) or [] (a branch, the odd nodes).             *)
(***************************************************************************)
NodesInit ==
    /\ _children = [n \in Nodes |-> IF n % 2 = 0 THEN NoChildren ELSE <<>>]
    /\ _parent = [n \in Nodes |-> None]
    /\ _root = [n \in Nodes |-> None]
    /\ last = NoCall

\* No declaration and no node slot is in use.
StyleIdle ==
    /\ heap = [o \in Objects |-> FreeObject]
    /\ slots = NoNode
    /\ slast = NoStyleCall

\* Nodes constructed without an applicator (the default of Node.__init__).
TreeInit ==
    /\ NodesInit
    /\ applicator = [n \in Nodes |-> None]
    /\ StyleIdle

\* Nodes constructed with or without an applicator of their own.
RefreshInit ==
    /\ NodesInit
    /\ applicator \in [Nodes -> {None} \cup {ApplicatorOf(n) : n \in Nodes}]
    /\ \A n \in Nodes : applicator[n] \in {None, ApplicatorOf(n)}
    /\ StyleIdle

RECURSIVE Edges(_, _)
\* The number of child entries held by nodes 1..n.
Edges(ch, n) == IF n = 0 THEN 0 ELSE Len(children(ch, n)) + Edges(ch, n - 1)

AddStep == \E self \in Nodes, child \in Nodes :
    /\ Edges(_children, NumNodes) < MaxEdges
    /\ add(self, child)

InsertStep == \E self \in Nodes, child \in Nodes, index \in Indexes :
    /\ Edges(_children, NumNodes) < MaxEdges
    /\ insert(self, index, child)

RemoveStep == \E self \in Nodes, child \in Nodes : remove(self, child)

ClearStep == \E self \in Nodes : clear(self)

RefreshStep == \E self \in Nodes, viewport \in Viewports : refresh(self, viewport)

TreeNext == AddStep \/ InsertStep \/ RemoveStep \/ ClearStep

TreeSpec == TreeInit /\ [][TreeNext]_vars

RECURSIVE Top(_, _, _)
\* The ancestor of n that has no parent (n itself when it has none).
Top(pa, n, k) == IF pa[n] = None \/ k = 0 THEN n ELSE Top(pa, pa[n], k - 1)

TreeRoot(n) == Top(_parent, n, NumNodes)

\* A host that only attaches the root of another tree: the child has no
\* parent and is not the top of the tree that receives it.
Detached(self, child) == _parent[child] = None /\ TreeRoot(self) # child

ForestAddStep == \E self \in Nodes, child \in Nodes :
    /\ Edges(_children, NumNodes) < MaxEdges
    /\ Detached(self, child)
    /\ add(self, child)

ForestInsertStep == \E self \in Nodes, child \in Nodes, index \in Indexes :
    /\ Edges(_children, NumNodes) < MaxEdges
    /\ Detached(self, child)
    /\ insert(self, index, child)

ForestNext ==
    ForestAddStep \/ ForestInsertStep \/ RemoveStep \/ ClearStep \/ RefreshStep

\* Trees built and taken apart one detached subtree at a time, and refreshed.
ForestSpec == RefreshInit /\ [][ForestNext]_vars

(***************************************************************************)
(* OrderSpec: one branch node (node 1) whose list of children is built     *)
(* with add and insert at every position, and taken apart again; the same  *)
(* child may be handed over more than once.                                *)
(***************************************************************************)
\* Indexes handed to insert in OrderSpec: negative, and 0 up to the end.
OrderIndexes == -1..MaxChildren

OrderAddStep == \E child \in Nodes \ {1} :
    /\ Len(children(_children, 1)) < MaxChildren
    /\ add(1, child)

OrderInsertStep == \E child \in Nodes \ {1}, index \in OrderIndexes :
    /\ Len(children(_children, 1)) < MaxChildren
    /\ insert(1, index, child)

OrderRemoveStep == \E child \in Nodes \ {1} : remove(1, child)

OrderClearStep == clear(1)

OrderNext ==
    OrderAddStep \/ OrderInsertStep \/ OrderRemoveStep \/ OrderClearStep

OrderSpec == TreeInit /\ [][OrderNext]_vars

(***************************************************************************)
(* PropSpec: one declaration of the test_choices Style, written and reset. *)
(***************************************************************************)
TreeIdle ==
    /\ NodesInit
    /\ applicator = [n \in Nodes |-> None]

PropInit ==
    /\ TreeIdle
    /\ heap = [o \in Objects |-> IF o = 1 THEN NewObject(ChoiceStyle)
                                          ELSE FreeObject]
    /\ slots = NoNode
    /\ slast = NoStyleCall

PropNext == WriteStep \/ DeleteStep

PropSpec == PropInit /\ [][PropNext]_vars

(***************************************************************************)
(* BindSpec: the host's declaration of the test_node Style, and one node   *)
(* that is constructed and then has its style and applicator assigned.     *)
(***************************************************************************)
BindInit ==
    /\ TreeIdle
    /\ heap = [o \in Objects |-> IF o = 1 THEN NewObject(NodeStyle)
                                          ELSE FreeObject]
    /\ slots = NoNode
    /\ slast = NoStyleCall

BindNext ==
    ConstructStep \/ SetStyleStep \/ SetApplicatorStep \/ WriteStep \/ DeleteStep

BindSpec == BindInit /\ [][BindNext]_vars

(***************************************************************************)
(* DeclSpec: one declaration of DeclStyle, through its properties, its     *)
(* directional property and its dict-like interface.                       *)
(***************************************************************************)
DeclInit ==
    /\ TreeIdle
    /\ heap = [o \in Objects |-> IF o = 1 THEN NewObject(DeclStyle)
                                          ELSE FreeObject]
    /\ slots = NoNode
    /\ slast = NoStyleCall

DeclNext ==
    \/ WriteStep \/ DeleteStep
    \/ DirectionalWriteStep \/ DirectionalDeleteStep
    \/ GetItemStep \/ SetItemStep \/ DelItemStep
    \/ UpdateStep \/ IorStep \/ ReapplyStep

DeclSpec == DeclInit /\ [][DeclNext]_vars

(***************************************************************************)
(* CopySpec: the host's declaration DeclStyle(thing=(1, 2)), the copies    *)
(* the host makes of it and the copy a node makes when it is assigned.     *)
(***************************************************************************)
CopyInit ==
    /\ TreeIdle
    /\ heap = update([o \in Objects |-> IF o = 1 THEN NewObject(DeclStyle)
                                                 ELSE FreeObject],
                     1, << <<"thing", PyTuple(<<PyInt(1), PyInt(2)>>)>> >>).heap
    /\ slots = NoNode
    /\ slast = NoStyleCall

CopyNext ==
    \/ CopyWriteStep \/ CopyDeleteStep \/ CopyStep \/ DiscardStep
    \/ CopyConstructStep \/ CopySetStyleStep

CopySpec == CopyInit /\ [][CopyNext]_vars

(***************************************************************************)
(* MergeSpec: two declarations a (object 1, DeclStyle) and b (object 2, of *)
(* DeclStyle or of another class), merged with | and |=.                   *)
(***************************************************************************)
\* The writes of MergeSpec: <<name, value>>.
MergeWrites ==
    {<<"thing_top", PyInt(1)>>, <<"list_prop", PyStr(<<" ", "0">>)>>,
     <<"allow_integer", PyInt(10)>>}

\* The right-hand sides that are no declaration: mappings, and no mapping.
MergeOperands ==
    {Mapping(<< <<"thing-top", PyInt(2)>>, <<"thing_left", PyStr(<<"1">>)>> >>),
     PyInt(1)}

\* style.<name> = value, for the names and values of MergeWrites
MergeWriteStep == \E obj \in Alive(heap) \cap {1, 2} : \E w \in MergeWrites :
    /\ w[1] \in PropertySet(heap[obj].cls)
    /\ \E r \in {validated_property__set__(heap, obj, w[1], w[2])} :
           /\ heap' = r.heap
           /\ slast' = [NoStyleCall EXCEPT !.op = "write", !.obj = obj,
                            !.name = w[1], !.value = w[2],
                            !.before = heap[obj].attrs[w[1]], !.err = r.err,
                            !.applies = r.applies]
    /\ UNCHANGED <<slots, treeVars>>

\* del style.<name>, for the names of MergeWrites
MergeDeleteStep == \E obj \in Alive(heap) \cap {1, 2} : \E w \in MergeWrites :
    /\ w[1] \in PropertySet(heap[obj].cls)
    /\ \E r \in {validated_property__delete__(heap, obj, w[1])} :
           /\ heap' = r.heap
           /\ slast' = [NoStyleCall EXCEPT !.op = "delete", !.obj = obj,
                            !.name = w[1],
                            !.before = heap[obj].attrs[w[1]], !.err = r.err,
                            !.applies = r.applies]
    /\ UNCHANGED <<slots, treeVars>>

\* result = style | other: the host keeps the result; a | that raises
\* leaves no new object behind.
OrStep ==
    /\ Objects \ Alive(heap) # {}
    /\ \E obj \in Alive(heap) \cap {1, 2} :
        \E other \in MergeOperands \cup {StyleRef(1), StyleRef(2)} :
            \E r \in {__or__(heap, obj, other)} :
               /\ heap' = IF r.err = "none" THEN r.heap
                                            ELSE Release(r.heap, r.obj)
               /\ slast' = [NoStyleCall EXCEPT !.op = "or", !.obj = obj,
                                !.value = other,
                                !.style = IF r.err = "none" THEN r.obj ELSE None,
                                !.err = r.err, !.applies = r.applies]
    /\ UNCHANGED <<slots, treeVars>>

\* style |= other
MergeIorStep == \E obj \in Alive(heap) \cap {1, 2} :
    \E other \in MergeOperands \cup {StyleRef(1), StyleRef(2)} :
        \E r \in {ior(heap, obj, other)} :
           /\ heap' = r.heap
           /\ slast' = [NoStyleCall EXCEPT !.op = "ior", !.obj = obj,
                            !.value = other,
                            !.err = r.err, !.applies = r.applies]
           /\ UNCHANGED <<slots, treeVars>>

\* The host drops the result of a | that it held.
MergeDiscardStep ==
    \E obj \in Alive(heap) \ {1, 2} :
        /\ heap' = Release(heap, obj)
        /\ slast' = [NoStyleCall EXCEPT !.op = "discard", !.obj = obj]
        /\ UNCHANGED <<slots, treeVars>>

MergeInit ==
    /\ TreeIdle
    /\ \E cls \in {DeclStyle, ChoiceStyle} :
           heap = [o \in Objects |-> IF o = 1 THEN NewObject(DeclStyle)
                                     ELSE IF o = 2 THEN NewObject(cls)
                                     ELSE FreeObject]
    /\ slots = NoNode
    /\ slast = NoStyleCall

MergeNext ==
    \/ MergeWriteStep \/ MergeDeleteStep \/ OrStep \/ MergeIorStep
    \/ MergeDiscardStep

MergeSpec == MergeInit /\ [][MergeNext]_vars

(***************************************************************************)
(* RoundTripSpec: one declaration, of the test_choices Style or of         *)
(* DeclStyle, whose properties are written, reset, and written back with   *)
(* the value just read from them.                                          *)
(***************************************************************************)
\* style[name] = style[name], for a property that is set
WriteBackStep == \E obj \in Alive(heap) :
    \E name \in keys(heap, obj) :
        \E r \in {setitem(heap, obj, name, getitem(heap, obj, name).value)} :
           /\ heap' = r.heap
           /\ slast' = [NoStyleCall EXCEPT !.op = "writeback", !.obj = obj,
                            !.name = name,
                            !.value = getitem(heap, obj, name).value,
                            !.before = heap[obj].attrs[name], !.err = r.err,
                            !.applies = r.applies]
           /\ UNCHANGED <<slots, treeVars>>

RoundTripInit ==
    /\ TreeIdle
    /\ \E cls \in {ChoiceStyle, DeclStyle} :
           heap = [o \in Objects |-> IF o = 1 THEN NewObject(cls)
                                     ELSE FreeObject]
    /\ slots = NoNode
    /\ slast = NoStyleCall

RoundTripNext == WriteStep \/ DeleteStep \/ WriteBackStep

RoundTripSpec == RoundTripInit /\ [][RoundTripNext]_vars

(***************************************************************************)
(* WiringSpec: a host with a declaration of BrokenStyle or of the          *)
(* test_node Style, and one node that is constructed and has its style and *)
(* applicator assigned.                                                    *)
(***************************************************************************)
WiringInit ==
    /\ TreeIdle
    /\ \E cls \in {BrokenStyle, NodeStyle} :
           heap = [o \in Objects |-> IF o = 1 THEN NewObject(cls)
                                     ELSE FreeObject]
    /\ slots = NoNode
    /\ slast = NoStyleCall

WiringNext ==
    ConstructStep \/ SetStyleStep \/ SetApplicatorStep \/ WriteStep \/ DeleteStep

WiringSpec == WiringInit /\ [][WiringNext]_vars

(***************************************************************************)
(* ValidateSpec: Choices objects as the style classes of the tests build   *)
(* them, each validating one value.                                        *)
(***************************************************************************)
\* Choices(*constants): the constants of the tests' properties (VALUES and
\* a symbol that is also a colour name, and a number).
ConstantSets ==
    {{}, {PyStr(<<"a">>), PyStr(<<"b">>), NONE}, {PyInt(10), REBECCAPURPLE}}

ChoicesObjects ==
    {Choices(k, s, i, n, c) :
         k \in ConstantSets, s \in BOOLEAN, i \in BOOLEAN, n \in BOOLEAN,
         c \in BOOLEAN}

\* The values handed to Choices.validate.
ValidateValues ==
    {PyStr(<<" ", "a", " ">>), PyStr(<<"a">>), NONE, REBECCAPURPLE,
     PyStr(<<"#112233">>), PyStr(<<"10">>), PyStr(<<" ", "10.5">>),
     PyStr(<<"invalid">>), PyInt(10), PyInt(5), PyFloat(100), PyFloat(105),
     NoneValue}

\* The record of a validate call: the Choices object, the value handed to it
\* and, once validate has run (op = "validate"), what it returned or raised.
Validation(c, value) ==
    [op |-> "init", choices |-> c, value |-> value, result |-> Fail]

\* choices.validate(value)
ValidateStep ==
    /\ slast.op = "init"
    /\ \E r \in {Choices_validate(slast.choices, slast.value)} :
           slast' = [slast EXCEPT !.op = "validate", !.result = r]
    /\ UNCHANGED <<heap, slots, treeVars>>

\* A Choices object and the value that is about to be validated.
ValidateInit ==
    /\ TreeIdle
    /\ heap = [o \in Objects |-> FreeObject]
    /\ slots = NoNode
    /\ \E c \in ChoicesObjects : \E value \in ValidateValues :
           slast = Validation(c, value)

ValidateNext == ValidateStep

ValidateSpec == ValidateInit /\ [][ValidateNext]_vars

(***************************************************************************)
(* DefineSpec: a property is defined with some choices and an initial      *)
(* value, and then read on an instance on which it is not set.             *)
(***************************************************************************)
\* The initial= arguments: those of ValidateValues, and sequences.
InitialArguments ==
    ValidateValues
        \cup {PyList(<<PyStr(<<" ", "a", " ">>), PyInt(10)>>),
              PyList(<<PyFloat(105), PyStr(<<"10">>)>>),
              PyTuple(<<PyStr(<<"invalid">>)>>), PyList(<<>>)}

\* The record of a definition: the kind of property, its choices, the
\* initial= argument, what __init__ made of it (op = "define") and what a
\* read of the property returned on a new instance (op = "read").
Definition(kind, c, arg) ==
    [op |-> "init", kind |-> kind, choices |-> c, value |-> arg,
     result |-> Fail, read |-> NoneValue]

\* validated_property(choices, initial=value) / list_property(...)
DefineStep ==
    /\ slast.op = "init"
    /\ \E r \in {validated_property__init__(slast.kind, slast.choices,
                                            slast.value)} :
           slast' = [slast EXCEPT !.op = "define", !.result = r]
    /\ UNCHANGED <<heap, slots, treeVars>>

\* style.<name>, on an instance of a class that was defined, with nothing
\* stored for the property
ReadStep ==
    /\ slast.op = "define"
    /\ slast.result.ok
    /\ slast' = [slast EXCEPT !.op = "read",
                              !.read = __get__(NoneValue, slast.result.value)]
    /\ UNCHANGED <<heap, slots, treeVars>>

DefineInit ==
    /\ TreeIdle
    /\ heap = [o \in Objects |-> FreeObject]
    /\ slots = NoNode
    /\ \E kind \in {"scalar", "list"} : \E c \in ChoicesObjects :
           \E arg \in InitialArguments : slast = Definition(kind, c, arg)

DefineNext == DefineStep \/ ReadStep

DefineSpec == DefineInit /\ [][DefineNext]_vars

(***************************************************************************)
(* Shapes of the node graph the claims speak of                            *)
(***************************************************************************)
ChildSet(ch, n) == {children(ch, n)[i] : i \in 1..Len(children(ch, n))}

RECURSIVE Closure(_, _, _)
Closure(ch, S, k) ==
    IF k = 0 THEN S
    ELSE Closure(ch, S \cup UNION {ChildSet(ch, m) : m \in S}, k - 1)

\* The nodes reached from n over one or more children edges.
Descendants(ch, n) == Closure(ch, ChildSet(ch, n), NumNodes)

\* No node is its own descendant.
Acyclic(ch) == \A n \in Nodes : n \notin Descendants(ch, n)

MutatingOps == {"add", "insert", "remove", "clear"}

(***************************************************************************)
(* C3. After r2.add(r) or r2.insert(i, r) has returned on a branch node    *)
(* r2, r.parent is r2, r.root is r2's root, and every descendant of r      *)
(* reports r2's root as its root.                                          *)
(***************************************************************************)
C3_AddSetsRootOfSubtree ==
    (last.op \in {"add", "insert"} /\ last.err = "none") =>
        /\ _parent[last.child] = last.self
        /\ root(_root, last.child) = root(_root, last.self)
        /\ \A d \in Descendants(_children, last.child) :
               root(_root, d) = root(_root, last.self)

\* A node that has a child of its own was added below another node.
C3_Witness ==
    /\ last.op = "add"
    /\ last.err = "none"
    /\ last.child # last.self
    /\ Descendants(_children, last.child) # {}
    /\ root(_root, last.self) = last.self

(***************************************************************************)
(* C4. After p.remove(c) or p.clear() has returned, each removed child c   *)
(* is no longer in p.children, has parent None and is its own root, and    *)
(* every descendant d of c has d.root = c.                                 *)
(***************************************************************************)
C4_RemovedSubtreeKeepsOneRoot ==
    (last.op \in {"remove", "clear"} /\ last.err = "none") =>
        \A i \in 1..Len(last.removed) :
            LET c == last.removed[i]
            IN /\ ~Contains(children(_children, last.self), c)
               /\ _parent[c] = None
               /\ root(_root, c) = c
               /\ \A d \in Descendants(_children, c) : root(_root, d) = c

(***************************************************************************)
(* C5. After any sequence of add / insert / remove / clear calls that      *)
(* leaves the nodes a forest, every c in p.children has c.parent = p, and  *)
(* n.root is n exactly when n.parent is None.                              *)
(***************************************************************************)
C5_ParentAndRootConsistent ==
    Acyclic(_children) =>
        /\ \A p \in Nodes : \A c \in ChildSet(_children, p) : _parent[c] = p
        /\ \A n \in Nodes : (root(_root, n) = n) <=> (_parent[n] = None)

(***************************************************************************)
(* C6. On a leaf, each of add, insert, remove and clear fails with the     *)
(* cannot-have-children error (ValueError) and changes no node; the leaf's *)
(* children read as empty and can_have_children is false.                  *)
(***************************************************************************)
C6_LeafRejectsEveryMutation ==
    [][(last'.op \in MutatingOps /\ _children[last'.self] = NoChildren) =>
          /\ last'.err = "ValueError"
          /\ UNCHANGED <<_children, _parent, _root>>
          /\ children(_children', last'.self) = <<>>
          /\ ~can_have_children(_children', last'.self)]_vars

(***************************************************************************)
(* C7. refresh(viewport) on any node of a tree causes exactly one layout   *)
(* computation, on the tree's root with that viewport, followed by exactly *)
(* one set_bounds call on the root's applicator if the root has one, and   *)
(* by no call on any other applicator.                                     *)
(***************************************************************************)
C7_RefreshLaysOutTreeRoot ==
    (last.op = "refresh" /\ Acyclic(_children)) =>
        LET r == TreeRoot(last.self)
        IN /\ last.err = "none"
           /\ last.layouts = <<[node |-> r, viewport |-> last.viewport]>>
           /\ last.bounds = IF applicator[r] # None THEN <<applicator[r]>>
                                                    ELSE <<>>

(***************************************************************************)
(* Claims about binding a style and an applicator to a node                *)
(***************************************************************************)
\* The node holds both a style and an applicator.
Both(sl) == sl._style # None /\ sl._applicator # None

\* C1: every step that takes the node from "not both a style and an
\* applicator" to "both" - by the constructor, by assigning the style or by
\* assigning the applicator - calls reapply() exactly once, on the node's
\* style; and no property write or delete calls reapply(), also not on the
\* style the node is bound to.
C1_ReapplyOncePerBinding ==
    [][/\ (~Both(slots) /\ Both(slots')) =>
              slast'.reapplied = <<slots'._style>>
       /\ slast'.op \in {"write", "delete"} => slast'.reapplied = <<>>]_vars

\* The constructor was given both a style and an applicator, and the copy it
\* bound was reapplied once.
C1_Witness ==
    /\ slast.op = "__init__"
    /\ slast.style # None /\ slast.applicator # None
    /\ Both(slots)
    /\ slast.reapplied = <<slots._style>>

\* C2: assigning an applicator to a node that holds a style stores that very
\* applicator, makes it the style's _applicator, and calls the style's
\* reapply() once if the applicator is not None (also when another applicator
\* was there before) and not at all if it is None.
C2_ApplicatorAssignment ==
    (slast.op = "applicator" /\ slast.previous._style # None) =>
        /\ slots._applicator = slast.applicator
        /\ slots._style = slast.previous._style
        /\ heap[slots._style]._assigned_applicator = slast.applicator
        /\ slast.reapplied =
               IF slast.applicator # None THEN <<slots._style>> ELSE <<>>

\* An applicator replaced another one on a node with a style.
C2_Witness ==
    /\ slast.op = "applicator"
    /\ slast.previous._style # None
    /\ slast.previous._applicator # None
    /\ slast.applicator # None
    /\ slast.applicator # slast.previous._applicator
    /\ slast.reapplied = <<slots._style>>

(***************************************************************************)
(* Claims about writing and deleting a validated property                  *)
(***************************************************************************)
\* The call recorded in c was a write that passed validation.
ValidWrite(c) ==
    /\ c.op = "write"
    /\ c.err = "none"
    /\ c.value[1] # "descriptor"

\* The value a write stores: what validation makes of the value written.
Normalized(c) == validate(c.name, c.value).value

\* C8: a write calls apply(name, normalized value) exactly once and stores
\* the normalized value when nothing is stored or the stored value differs
\* from it; it calls nothing and changes nothing when the stored value equals
\* it.  So the second of two consecutive writes that normalize to the same
\* value applies nothing, and the two together apply once if the first one
\* changed the property.
C8_WriteAppliesOnChangeOnly ==
    [][ValidWrite(slast') =>
          LET obj == slast'.obj
              name == slast'.name
              stored == heap[obj].attrs[name]
          IN /\ IF stored = Unset \/ ~PyEq(Normalized(slast'), stored)
                THEN /\ slast'.applies =
                            <<ApplyCall(obj, name, Normalized(slast'))>>
                     /\ heap' = [heap EXCEPT
                                    ![obj].attrs[name] = Normalized(slast')]
                ELSE /\ slast'.applies = <<>>
                     /\ heap' = heap
             /\ (/\ ValidWrite(slast)
                 /\ slast.obj = obj /\ slast.name = name
                 /\ Normalized(slast) = Normalized(slast')) =>
                    /\ slast'.applies = <<>>
                    /\ Len(slast.applies) =
                          IF slast.before = Unset
                             \/ ~PyEq(Normalized(slast), slast.before)
                          THEN 1 ELSE 0]_vars

\* A write of a value that validation changed, equal after validation to
\* what was stored: nothing applied.
C8_Witness ==
    /\ ValidWrite(slast)
    /\ slast.value # Normalized(slast)
    /\ slast.before = Normalized(slast)
    /\ slast.applies = <<>>

C10_DeleteRestoresInitial ==
    [][/\ (slast'.op = "delete" /\ is_set_on(heap, slast'.obj, slast'.name)) =>
              /\ validated_property__get__(heap', slast'.obj, slast'.name) =
                     initial(slast'.name)
              /\ ~is_set_on(heap', slast'.obj, slast'.name)
              /\ ~contains(heap', slast'.obj, slast'.name)
              /\ slast'.applies =
                     <<ApplyCall(slast'.obj, slast'.name, initial(slast'.name))>>
       /\ (ValidWrite(slast') /\ ~is_set_on(heap, slast'.obj, slast'.name)) =>
              /\ is_set_on(heap', slast'.obj, slast'.name)
              /\ contains(heap', slast'.obj, slast'.name)
              /\ validated_property__get__(heap', slast'.obj, slast'.name) =
                     Normalized(slast')]_vars

\* A property holding a value other than its initial one was deleted and
\* now reads as the initial value.
C10_Witness ==
    /\ slast.op = "delete"
    /\ slast.before # Unset
    /\ slast.before # initial(slast.name)
    /\ ~is_set_on(heap, slast.obj, slast.name)
    /\ validated_property__get__(heap, slast.obj, slast.name) =
           initial(slast.name)

(***************************************************************************)
(* Claims about failing writes                                             *)
(***************************************************************************)
\* The call recorded in c names one primary property, or no property of the
\* class at all: a write to a primary property, or style[key], style[key] =
\* value, del style[key] with a key that is not a directional name.
SinglePropertyCall(c) ==
    \/ c.op = "write"
    \/ /\ c.op \in {"getitem", "setitem", "delitem"}
       /\ replace_hyphens(c.name) \notin DirectionalNames(heap[c.obj].cls)

\* C11: a write of one property that fails raises, changes no stored value
\* and no set/unset status, and calls no apply; and these do fail: None
\* (ValueError), a value the choices reject (ValueError), an empty sequence
\* (ValueError) or a non-sequence (TypeError) for a list property, and
\* style[key], style[key] = value, del style[key] with a key that is no
\* property of the class (KeyError).
C11_FailedWriteChangesNothing ==
    [][LET c == slast'
       IN /\ (SinglePropertyCall(c) /\ c.err # "none") =>
                 /\ heap' = heap
                 /\ c.applies = <<>>
          /\ (c.op = "write" /\ c.value[1] = "None") => c.err = "ValueError"
          /\ (c.op = "write" /\ c.name \in ListProperties
                /\ c.value[1] \in {"list", "tuple"} /\ c.value[2] = <<>>) =>
                 c.err = "ValueError"
          /\ (c.op = "write" /\ c.name \in ListProperties
                /\ c.value[1] \in {"int", "float", "ImmutableList"}) =>
                 c.err = "TypeError"
          /\ (c.op = "write" /\ c.name \notin ListProperties
                /\ c.value[1] \notin {"None", "descriptor"}
                /\ ~Choices_validate(choices(c.name), c.value).ok) =>
                 c.err = "ValueError"
          /\ (c.op \in {"getitem", "setitem", "delitem"}
                /\ replace_hyphens(c.name)
                       \notin _ALL_PROPERTIES(heap[c.obj].cls)) =>
                 c.err = "KeyError"]_vars

\* A list property that holds a value was written with a non-sequence: the
\* write raised TypeError and the value is still there.
C11_Witness ==
    /\ slast.op = "write"
    /\ slast.name = "list_prop"
    /\ slast.value = PyInt(1)
    /\ slast.err = "TypeError"
    /\ slast.applies = <<>>
    /\ slast.before # Unset
    /\ heap[slast.obj].attrs["list_prop"] = slast.before

\* The call recorded in c writes several properties: a write of a directional
\* property (also through style[key] = value), update() or |=.
MultiPropertyWrite(c) ==
    \/ c.op \in {"directional_write", "update", "ior"}
    \/ /\ c.op = "setitem"
       /\ replace_hyphens(c.name) \in DirectionalNames(heap[c.obj].cls)

\* C12: a write of several properties that fails - a directional write with
\* an invalid element, update() or |= with an unknown key or an invalid
\* value - leaves every stored value as it was and calls no apply.
C12_FailedMultiWriteChangesNothing ==
    [][(MultiPropertyWrite(slast') /\ slast'.err # "none") =>
           /\ heap' = heap
           /\ slast'.applies = <<>>]_vars

(***************************************************************************)
(* Claims about directional properties                                     *)
(***************************************************************************)
\* The elements of the value written to a directional property: those of a
\* tuple, or the value itself.
Elements(value) == IF IsTuple(value) THEN value[2] ELSE <<value>>

\* What a physical property of "thing" stores for the element written.
NormalizedElement(value, i) == validate("thing_top", Elements(value)[i]).value

\* C13: a directional write of valid elements succeeds, and the property
\* then reads, as (top, right, bottom, left): (a, a, a, a) for a scalar or a
\* 1-tuple, (a, b, a, b) for a 2-tuple, (a, b, c, b) for a 3-tuple and
\* (a, b, c, d) for a 4-tuple; a tuple of any other length raises ValueError
\* and changes none of the four physical properties.
C13_DirectionalExpansion ==
    [][slast'.op = "directional_write" =>
          LET value == slast'.value
              n == Len(Elements(value))
              a == NormalizedElement(value, 1)
              b == NormalizedElement(value, 2)
              c == NormalizedElement(value, 3)
              d == NormalizedElement(value, 4)
              read == directional_property__get__(heap', slast'.obj,
                                                  slast'.name)
          IN IF n \in 1..4
             THEN (\A i \in 1..n :
                       /\ Elements(value)[i][1] # "None"
                       /\ validate("thing_top", Elements(value)[i]).ok) =>
                      /\ slast'.err = "none"
                      /\ n = 1 => read = PyTuple(<<a, a, a, a>>)
                      /\ n = 2 => read = PyTuple(<<a, b, a, b>>)
                      /\ n = 3 => read = PyTuple(<<a, b, c, b>>)
                      /\ n = 4 => read = PyTuple(<<a, b, c, d>>)
             ELSE /\ slast'.err = "ValueError"
                  /\ heap' = heap
                  /\ slast'.applies = <<>>]_vars

\* A 3-tuple (1, 1, 2) was written and the property reads (1, 1, 2, 1).
C13_Witness ==
    /\ slast.op = "directional_write"
    /\ slast.value = PyTuple(<<PyInt(1), PyInt(1), PyInt(2)>>)
    /\ slast.err = "none"
    /\ directional_property__get__(heap, slast.obj, slast.name) =
           PyTuple(<<PyInt(1), PyInt(1), PyInt(2), PyInt(1)>>)

\* C14: a directional name is contained in a declaration exactly when at
\* least one of its four physical properties is set - so not on a fresh
\* declaration - and after the directional property is deleted all four are
\* unset and the name is not contained.
C14_DirectionalContainedIffAnySet ==
    \A obj \in Alive(heap) : \A name \in DirectionalNames(heap[obj].cls) :
        /\ contains(heap, obj, name) <=>
               \E i \in 1..Len(DIRECTIONS) :
                   is_set_on(heap, obj, format(name, DIRECTIONS[i]))
        /\ (slast.op = "directional_delete" /\ slast.obj = obj
              /\ slast.name = name) =>
               /\ \A i \in 1..Len(DIRECTIONS) :
                      ~is_set_on(heap, obj, format(name, DIRECTIONS[i]))
               /\ ~contains(heap, obj, name)

(***************************************************************************)
(* Claims about what a declaration contains                                *)
(***************************************************************************)
\* The names of the pairs of items().
ItemNames(h, obj) ==
    LET pairs == items(h, obj) IN {pairs[i][1] : i \in 1..Len(pairs)}

\* C15: a primary name is contained exactly when it was written (also with a
\* value equal to its initial value) and not deleted since: a valid write
\* makes it contained, a delete makes it not contained, and a write or
\* delete of one name, failed or not, leaves the containment of every other
\* name, and a failed write that of its own, as it was.  keys(), iteration,
\* items() and len() report exactly the primary names that have a value
\* stored, and never a directional name.
C15_ContainedIffWritten ==
    /\ [][\A n \in PropertySet(heap'[slast'.obj].cls) :
              LET c == slast'
                  mine == c.name = n
              IN c.op \in {"write", "delete"} =>
                 /\ (ValidWrite(c) /\ mine) => contains(heap', c.obj, n)
                 /\ (c.op = "delete" /\ mine) => ~contains(heap', c.obj, n)
                 /\ (~mine \/ (c.op = "write" /\ ~ValidWrite(c))) =>
                        (contains(heap', c.obj, n) <=> contains(heap, c.obj, n))
         ]_vars
    /\ [](\A obj \in Alive(heap) :
              LET set == {n \in PropertySet(heap[obj].cls) :
                              heap[obj].attrs[n] # Unset}
              IN /\ keys(heap, obj) = set
                 /\ ItemNames(heap, obj) = set
                 /\ len(heap, obj) = Cardinality(set)
                 /\ set \cap DirectionalNames(heap[obj].cls) = {})

\* A property was written with its own initial value and is contained, and
\* keys() does not report the directional name.
C15_Witness ==
    /\ ValidWrite(slast)
    /\ slast.before = Unset
    /\ Normalized(slast) = initial(slast.name)
    /\ contains(heap, slast.obj, slast.name)
    /\ slast.name \in keys(heap, slast.obj)
    /\ "thing" \notin keys(heap, slast.obj)

(***************************************************************************)
(* Claims about reapply() and copy()                                       *)
(***************************************************************************)
\* The names of the apply calls of the last call.
AppliedNames == {slast.applies[i].name : i \in 1..Len(slast.applies)}

C18_CopyIsEqualAndIndependent ==
    [][/\ slast'.op = "copy" =>
              LET s == slast'.obj
                  dup == slast'.style
              IN /\ slast'.err = "none"
                 /\ dup \in Alive(heap') \ Alive(heap)
                 /\ heap'[dup].cls = heap[s].cls
                 /\ \A n \in PropertySet(heap[s].cls) :
                        heap'[dup].attrs[n] = heap[s].attrs[n]
                 /\ directional_property__get__(heap', dup, "thing") =
                        directional_property__get__(heap, s, "thing")
                 /\ heap'[s] = heap[s]
                 /\ heap'[dup]._assigned_applicator = None
       /\ slast'.op \in {"write", "delete"} =>
              \A o \in Objects \ {slast'.obj} : heap'[o] = heap[o]]_vars

(***************************************************************************)
(* Claims about the style a node holds                                     *)
(***************************************************************************)
\* C16: assigning a style to a node (also in the constructor) stores a copy:
\* node.style is another object than the caller's, with the same properties
\* set to the same values as the caller's declaration has then; and a later
\* write or delete on the caller's declaration does not change node.style,
\* nor one on node.style the caller's.
C16_NodeStoresPrivateCopy ==
    [][/\ (slast'.op \in {"style", "__init__"} /\ slast'.style # None) =>
              /\ slast'.err = "none"
              /\ slots'._style # None
              /\ slots'._style # slast'.style
              /\ heap'[slots'._style].cls = heap[slast'.style].cls
              /\ heap'[slots'._style].attrs = heap[slast'.style].attrs
              /\ slast'.style # slots._style =>
                     heap'[slast'.style] = heap[slast'.style]
       /\ (slast'.op \in {"write", "delete"} /\ slots._style # None) =>
              /\ slast'.obj # slots._style =>
                     heap'[slots._style] = heap[slots._style]
              /\ slast'.obj = slots._style =>
                     \A o \in Objects \ {slots._style} : heap'[o] = heap[o]
      ]_vars


(***************************************************************************)
(* Choices.validate                                                        *)
(***************************************************************************)
\* No string / integer / number / color flag.
ConstantsOnly(c) == ~c.string /\ ~c.integer /\ ~c.number /\ ~c.color

\* The constants that the value equals (value == const).
EqualConstants(c, value) == {const \in c.constants : PyEq(value, const)}

\* C19: a Choices with constants only validates a value that equals one of
\* its constants to that constant, and fails with ValueError for every
\* other value.
C19_ConstantsOnly ==
    (slast.op = "validate" /\ ConstantsOnly(slast.choices)) =>
        IF EqualConstants(slast.choices, slast.value) # {}
        THEN /\ slast.result.ok
             /\ slast.result.value \in EqualConstants(slast.choices, slast.value)
        ELSE ~slast.result.ok /\ slast.result.err = "ValueError"

\* validate(10.0) with the constant 10 returns the constant, the int 10.
C19_Witness ==
    /\ slast.op = "validate" /\ ConstantsOnly(slast.choices)
    /\ slast.value = PyFloat(100)
    /\ slast.result = Ok(PyInt(10))

\* The steps of Choices.validate in their order.
Steps == <<"string", "integer", "number", "color", "constants">>

\* Whether step i is enabled (the constant comparison always is).
Enabled(c, i) ==
    IF Steps[i] = "string" THEN c.string
    ELSE IF Steps[i] = "integer" THEN c.integer
    ELSE IF Steps[i] = "number" THEN c.number
    ELSE IF Steps[i] = "color" THEN c.color
    ELSE TRUE

\* What step i makes of the value on its own: Ok(result), or a failure where
\* it cannot coerce the value.
StepResult(c, i, value) ==
    IF Steps[i] = "string"
    THEN IF IsStr(value) THEN Ok(PyStr(strip(value[2]))) ELSE Fail
    ELSE IF Steps[i] = "integer" THEN int(value)
    ELSE IF Steps[i] = "number" THEN float(value)
    ELSE IF Steps[i] = "color" THEN color(value)
    ELSE IF EqualConstants(c, value) # {}
         THEN Ok(CHOOSE const \in EqualConstants(c, value) : TRUE)
    ELSE Fail

\* The enabled steps that accept the value.
Accepting(c, value) ==
    {i \in DOMAIN Steps : Enabled(c, i) /\ StepResult(c, i, value).ok}

\* C20: Choices.validate returns what the first enabled step that accepts
\* the value makes of it, in the order string, integer, number, color,
\* constants, and fails with ValueError only when no enabled step and no
\* constant accepts it; with string enabled a string comes back trimmed.
C20_FirstAcceptingStep ==
    slast.op = "validate" =>
        LET c == slast.choices
            value == slast.value
            acc == Accepting(c, value)
        IN /\ IF acc = {}
              THEN ~slast.result.ok /\ slast.result.err = "ValueError"
              ELSE slast.result =
                       StepResult(c, CHOOSE i \in acc : \A j \in acc : i <= j,
                                  value)
           /\ (c.string /\ IsStr(value)) =>
                  slast.result = Ok(PyStr(strip(value[2])))

\* With integer, number, color and the constants 10 and "rebeccapurple"
\* all accepted, validate(10.5) falls to no later step: the integer step
\* takes it and returns 10.
C20_Witness ==
    /\ slast.op = "validate"
    /\ ~slast.choices.string /\ slast.choices.integer /\ slast.choices.number
    /\ slast.choices.color /\ slast.choices.constants # {}
    /\ slast.value = PyFloat(105)
    /\ Cardinality(Accepting(slast.choices, slast.value)) >= 2
    /\ slast.result = Ok(PyInt(10))

(***************************************************************************)
(* Claims about list properties                                            *)
(***************************************************************************)
\* The call recorded in c wrote a value to a list property that reached
\* validation (None is refused, and the descriptor itself ignored, by every
\* property before it validates).
ListWrite(c) ==
    /\ c.op = "write"
    /\ c.name \in ListProperties
    /\ c.value[1] \notin {"None", "descriptor"}

\* The elements of the value written to a list property.
ListItems(value) == IF IsStr(value) THEN <<value>> ELSE value[2]

\* C21: a write to a list property fails for an empty sequence (ValueError)
\* and for a value that is neither a string nor a sequence (TypeError); a
\* bare string s does what the one-element list [s] does; one element that
\* the choices reject fails the whole write and nothing is stored; and a
\* write that succeeds leaves the normalized elements stored, in the order
\* given.
C21_ListPropertyWrite ==
    [][ListWrite(slast') =>
          LET obj == slast'.obj
              name == slast'.name
              value == slast'.value
              elems == ListItems(value)
          IN /\ IF ~IsStr(value) /\ ~IsSequence(value)
                THEN slast'.err = "TypeError" /\ heap' = heap
                ELSE IF elems = <<>>
                THEN slast'.err = "ValueError" /\ heap' = heap
                ELSE IF \E i \in 1..Len(elems) :
                            ~Choices_validate(choices(name), elems[i]).ok
                THEN /\ slast'.err = "ValueError"
                     /\ heap' = heap
                     /\ slast'.applies = <<>>
                ELSE /\ slast'.err = "none"
                     /\ heap'[obj].attrs[name] =
                            ImmutableList(
                                [i \in 1..Len(elems) |->
                                    Choices_validate(choices(name),
                                                     elems[i]).value])
             /\ IsStr(value) =>
                    validated_property__set__(heap, obj, name, value) =
                        validated_property__set__(heap, obj, name,
                                                  PyList(<<value>>))]_vars

\* The tuple ("1 ", 2.5) was written to a list property of integers and
\* [1, 2] is stored.
C21_Witness ==
    /\ ListWrite(slast)
    /\ slast.value = PyTuple(<<PyStr(<<"1", " ">>), PyFloat(25)>>)
    /\ slast.err = "none"
    /\ heap[slast.obj].attrs["list_prop"] = ImmutableList(<<PyInt(1), PyInt(2)>>)

(***************************************************************************)
(* Claims about | and |=                                                   *)
(***************************************************************************)
\* The operand is one the merge supports for the declaration obj: a
\* declaration of the same class, or a mapping from names of the class to
\* values.
Mergeable(h, obj, other) ==
    \/ other[1] = "style" /\ h[other[2]].cls = h[obj].cls
    \/ /\ other[1] = "mapping"
       /\ \A i \in 1..Len(other[2]) :
              replace_hyphens(other[2][i][1]) \in PropertySet(h[obj].cls)

\* The operand is a declaration of another class, or no mapping at all.
Unsupported(h, obj, other) ==
    \/ other[1] = "style" /\ h[other[2]].cls # h[obj].cls
    \/ other[1] \notin {"style", "mapping"}

\* What the property name stores once other is laid over obj: the value that
\* other sets for it (the last one of a mapping, normalized), else what obj
\* stores.
Overlay(h, obj, other, name) ==
    IF other[1] = "style"
    THEN IF is_set_on(h, other[2], name) THEN h[other[2]].attrs[name]
         ELSE h[obj].attrs[name]
    ELSE LET at == {i \in 1..Len(other[2]) :
                       replace_hyphens(other[2][i][1]) = name}
         IN IF at = {} THEN h[obj].attrs[name]
            ELSE validate(name,
                          other[2][CHOOSE i \in at : \A j \in at : j <= i][2]).value

\* C22: a | b returns a new declaration that stores what a stores with the
\* values set in b laid over it, and changes neither a nor b; a |= b lays
\* them over a itself and changes nothing else; with a declaration of
\* another class, or an operand that is no mapping, both raise TypeError
\* and change nothing.
C22_MergeOverlays ==
    [][/\ (slast'.op = "or" /\ Mergeable(heap, slast'.obj, slast'.value)) =>
              LET a == slast'.obj
                  dup == slast'.style
              IN /\ slast'.err = "none"
                 /\ dup \in Alive(heap') \ Alive(heap)
                 /\ heap'[dup].cls = heap[a].cls
                 /\ \A n \in PropertySet(heap[a].cls) :
                        heap'[dup].attrs[n] = Overlay(heap, a, slast'.value, n)
                 /\ \A o \in Objects \ {dup} : heap'[o] = heap[o]
       /\ (slast'.op = "ior" /\ Mergeable(heap, slast'.obj, slast'.value)) =>
              LET a == slast'.obj
              IN /\ slast'.err = "none"
                 /\ heap'[a].cls = heap[a].cls
                 /\ \A n \in PropertySet(heap[a].cls) :
                        heap'[a].attrs[n] = Overlay(heap, a, slast'.value, n)
                 /\ \A o \in Objects \ {a} : heap'[o] = heap[o]
       /\ (slast'.op \in {"or", "ior"}
             /\ Unsupported(heap, slast'.obj, slast'.value)) =>
              slast'.err = "TypeError" /\ heap' = heap]_vars

(***************************************************************************)
(* Claims about the initial value of a property                            *)
(***************************************************************************)
\* The first enabled step of c that accepts the value (C20).
FirstAccepting(c, value) ==
    CHOOSE i \in Accepting(c, value) : \A j \in Accepting(c, value) : i <= j

\* The initial= argument is one the property accepts: a value its choices
\* accept, or for a list property a string or a non-empty list or tuple of
\* values they accept.
ValidInitial(kind, c, arg) ==
    IF kind = "scalar" THEN Accepting(c, arg) # {}
    ELSE /\ IsStr(arg) \/ IsSequence(arg)
         /\ ListItems(arg) # <<>>
         /\ \A i \in 1..Len(ListItems(arg)) :
                Accepting(c, ListItems(arg)[i]) # {}

\* What the choices make of the argument: the normalized initial value.
NormalizedInitial(kind, c, arg) ==
    IF kind = "scalar" THEN StepResult(c, FirstAccepting(c, arg), arg).value
    ELSE ImmutableList(
             [i \in 1..Len(ListItems(arg)) |->
                 StepResult(c, FirstAccepting(c, ListItems(arg)[i]),
                            ListItems(arg)[i]).value])

\* C23: defining a property fails when its initial value is not valid for
\* its choices; otherwise the property keeps the normalized initial value,
\* and a read of the property where it is not set returns it - or None
\* when no initial value was given.
C23_InitialValidatedAndRead ==
    slast.op \in {"define", "read"} =>
        LET kind == slast.kind
            c == slast.choices
            arg == slast.value
        IN /\ IF arg = NoneValue THEN slast.result = Ok(NoneValue)
              ELSE IF ~ValidInitial(kind, c, arg) THEN ~slast.result.ok
              ELSE slast.result = Ok(NormalizedInitial(kind, c, arg))
           /\ slast.op = "read" =>
                  slast.read = IF arg = NoneValue THEN NoneValue
                               ELSE NormalizedInitial(kind, c, arg)

\* A number property defined with initial=" 10.5" reads 10.5 where it is
\* not set.
C23_Witness ==
    /\ slast.op = "read"
    /\ slast.kind = "scalar"
    /\ slast.value = PyStr(<<" ", "10.5">>)
    /\ slast.read = PyFloat(105)

(***************************************************************************)
(* Claims about termination                                                *)
(***************************************************************************)
\* C24: every add, insert, remove, clear and refresh call returns (or
\* raises its ValueError) for any nodes handed to it: the propagation of
\* the root and the redirection of refresh never run into the recursion
\* limit, which only a walk that never ends can reach.
C24_EveryCallTerminates ==
    last.op \in {"add", "insert", "remove", "clear", "refresh"} =>
        last.err # "RecursionError"

(***************************************************************************)
(* Claims about writing back what was read                                 *)
(***************************************************************************)
\* C25: style[name] = style[name] for a property that is set, scalar or
\* list, succeeds, stores nothing new and calls no apply; and so a copy of
\* the declaration can be made.
C25_WriteBackChangesNothing ==
    [][slast'.op = "writeback" =>
          /\ slast'.err = "none"
          /\ heap' = heap
          /\ slast'.applies = <<>>
          /\ copy(heap, slast'.obj).err = "none"]_vars

(***************************************************************************)
(* Claims about the style's reference to the applicator                    *)
(***************************************************************************)
\* C26: whenever the node holds a style, the style's _applicator is the
\* node's applicator - None when the node has none - whatever styles and
\* applicators were assigned before, the constructor's included.
C26_StyleBoundToNodeApplicator ==
    slots._style # None =>
        heap[slots._style]._assigned_applicator = slots._applicator

\* The applicator of a node that had a style and an applicator was set to
\* None, and the style's reference is None too.
C26_Witness ==
    /\ slast.op = "applicator"
    /\ slast.applicator = None
    /\ slast.previous._applicator # None
    /\ slots._style # None
    /\ heap[slots._style]._assigned_applicator = None

(***************************************************************************)
(* Claims about a style that cannot be reapplied yet                       *)
(***************************************************************************)
\* The call recorded in c called a reapply() that raised AttributeError.
ReapplyRaised(h, c) ==
    /\ c.op \in {"__init__", "style", "applicator"}
    /\ c.reapplied # <<>>
    /\ h[c.reapplied[1]].cls = BrokenStyle

\* C27: when reapply() raises AttributeError inside the constructor, a style
\* assignment or an applicator assignment, the call does not raise and
\* warns once with a DeprecationWarning; the node holds a copy of the style
\* that was assigned (its own style as before, for an applicator
\* assignment) and the applicator, and the style's _applicator is that
\* applicator.  No other assignment warns.
C27_ReapplyFailureIsSwallowed ==
    /\ ReapplyRaised(heap, slast) =>
           /\ slast.err = "none"
           /\ slast.warnings = <<"DeprecationWarning">>
           /\ slots._style # None
           /\ heap[slots._style].cls = BrokenStyle
           /\ slast.op \in {"__init__", "style"} =>
                  /\ slots._style # slast.style
                  /\ slots._style \notin {1, slast.previous._style}
           /\ slast.op = "applicator" => slots._style = slast.previous._style
           /\ slots._applicator # None
           /\ slots._applicator =
                  IF slast.op = "style" THEN slast.previous._applicator
                  ELSE slast.applicator
           /\ heap[slots._style]._assigned_applicator = slots._applicator
    /\ ~ReapplyRaised(heap, slast) => slast.warnings = <<>>

\* Node(style=BrokenStyle(), applicator=applicator) warned and built the
\* node.
C27_Witness ==
    /\ ReapplyRaised(heap, slast)
    /\ slast.op = "__init__"
    /\ slots.constructed
    /\ slast.warnings = <<"DeprecationWarning">>
    /\ heap[slots._style]._assigned_applicator = slast.applicator

(***************************************************************************)
(* Claims about instances of one class                                     *)
(***************************************************************************)
\* C28: a write or a delete of a property on one declaration changes what
\* no other declaration stores - of the same class or another - and calls
\* apply on no other declaration.
C28_InstancesAreIndependent ==
    [][slast'.op \in {"write", "delete"} =>
          /\ \A o \in Objects \ {slast'.obj} : heap'[o] = heap[o]
          /\ \A i \in 1..Len(slast'.applies) :
                 slast'.applies[i].obj = slast'.obj]_vars

\* thing_top was written on one of two declarations of the same class and
\* applied there, while the other one still has it unset.
C28_Witness ==
    /\ slast.op = "write"
    /\ slast.name = "thing_top"
    /\ slast.applies # <<>>
    /\ \E o \in Alive(heap) \ {slast.obj} :
           /\ heap[o].cls = heap[slast.obj].cls
           /\ heap[o].attrs["thing_top"] = Unset
           /\ heap[slast.obj].attrs["thing_top"] = PyInt(1)

(***************************************************************************)
(* Claims about the order of children                                      *)
(***************************************************************************)
\* The sequence without its element at position k.
Without(seq, k) == SubSeq(seq, 1, k - 1) \o SubSeq(seq, k + 1, Len(seq))

\* C29: after node.insert(i, c) on a branch node with 0 <= i <=
\* len(children), c is at position i of node.children (position i + 1 of
\* the sequence, which counts from 1) and the children that were there
\* before follow in the order they had; after node.add(c), c is the last
\* child and the earlier ones keep their order.
C29_InsertAndAddKeepOrder ==
    [][/\ (/\ last'.op = "insert" /\ last'.err = "none"
           /\ last'.index \in 0..Len(_children[last'.self])) =>
              /\ Len(_children'[last'.self]) = Len(_children[last'.self]) + 1
              /\ _children'[last'.self][last'.index + 1] = last'.child
              /\ Without(_children'[last'.self], last'.index + 1) =
                     _children[last'.self]
       /\ (last'.op = "add" /\ last'.err = "none") =>
              /\ Len(_children'[last'.self]) = Len(_children[last'.self]) + 1
              /\ _children'[last'.self][Len(_children'[last'.self])] =
                     last'.child
              /\ Without(_children'[last'.self],
                         Len(_children'[last'.self])) =
                     _children[last'.self]]_vars

\* A child was inserted at index 1 between two different children.
C29_Witness ==
    /\ last.op = "insert" /\ last.err = "none"
    /\ last.index = 1
    /\ Len(children(_children, last.self)) = 3
    /\ _children[last.self][2] = last.child
    /\ _children[last.self][1] # _children[last.self][3]
====
